---- MODULE Spec2Model ----
(***************************************************************************)
(* Model of the semantic-search and analytics core of the SIH Solver's     *)
(* Compass backend: SearchService (search_service.py) and DashboardService *)
(* (dashboard_service.py).  The vector store, the embedding model and the  *)
(* wall clock are external: every handler draws what they answer from      *)
(* small sets and records it, so that each handler is one atomic action    *)
(* (no handler suspends between its first and last statement: the awaited  *)
(* coroutines contain no real suspension point).                           *)
(***************************************************************************)
EXTENDS Integers, Sequences, FiniteSets, TLC

VARIABLES
    \* ---- SearchService fields (search_service.py:26-33)
    sentence_model,      \* TRUE once a SentenceTransformer object is held
    chroma_client,       \* TRUE once an HttpClient object is held
    collection,          \* TRUE once a collection handle is held
    search_initialized,  \* SearchService._initialized
    \* ---- bookkeeping of the last SearchService operation
    search_call,         \* its inputs, the external calls it made and what the store answered
    search_ret,          \* what that operation returned or raised
    \* ---- result mapper exercised on its own
    mapper_in,
    mapper_out,
    \* ---- DashboardService fields (dashboard_service.py:28-38)
    dash_initialized,    \* DashboardService._initialized
    dash_client,         \* TRUE once the dashboard holds an HttpClient object
    dash_collection,     \* TRUE once the dashboard holds a collection handle
    cache,               \* self._cache : <<>> or << snapshot >> under key "stats"
    cache_timestamp,     \* self._cache_timestamp : NoTime or a tick count
    \* ---- the wall clock and the bookkeeping of DashboardService calls
    now,                 \* datetime.now(), in ticks of MinutesPerTick minutes
    next_object,         \* identity given to the next DashboardStats object built
    dash_call,           \* the last DashboardService operation and its inputs
    dash_ret,            \* what that operation returned or raised
    dash_hist,           \* what earlier get_dashboard_stats calls did (history)
    scan,                \* the last _fetch_all_problem_data scan: its page reads and its result
    \* ---- the offline ingestion of one raw record and its retrieval
    raw_record,          \* the raw record and the ingestion script that reads it
    store_record,        \* what the script stored for it
    fetched_problem,     \* what get_problem_by_id returned for its id
    \* ---- the recommendation engine (github_service.py)
    dna_in,              \* the profile handed to generate_github_dna
    dna_out,             \* the document it returned
    rec_call,            \* the last get_recommendations call and what it did
    rec_ret,             \* what that call returned or raised
    \* ---- GitHubService.cache (github_service.py:24) and its clock
    profile_cache,       \* self.cache, its entries in insertion order
    github_now,          \* datetime.now(), in ticks of GithubMinutesPerTick minutes
    profile_call,        \* the last get_github_profile call and what it did
    profile_ret,         \* what that call returned or raised
    \* ---- the callers of one SearchService running on the event loop
    tasks,               \* each caller's operation and where it stands in it
    init_totals,         \* models loaded, connections opened, initializations failed
    \* ---- the docgen proxy (routers/docgen.py)
    proxy                \* the _proxy_request call under way: its attempts and its end

conc_vars == <<tasks, init_totals>>
docgen_vars == <<proxy>>
search_vars == <<sentence_model, chroma_client, collection, search_initialized,
                 search_call, search_ret, conc_vars>>
mapper_vars == <<mapper_in, mapper_out>>
dash_vars == <<dash_initialized, dash_client, dash_collection, cache, cache_timestamp, now,
               next_object, dash_call, dash_ret, dash_hist, scan>>
ingest_vars == <<raw_record, store_record, fetched_problem>>
profile_vars == <<profile_cache, github_now, profile_call, profile_ret>>
github_vars == <<dna_in, dna_out, rec_call, rec_ret, profile_vars>>
vars == <<search_vars, mapper_vars, dash_vars, ingest_vars, github_vars, docgen_vars>>

(***************************************************************************)
(* Bounds                                                                  *)
(***************************************************************************)
MaxHits == 2          \* hits the store returns with arbitrary content
BigStore == 101       \* size of a store that holds more records than the cap
MaxTime == 3          \* ticks of wall clock explored
MinutesPerTick == 5   \* granularity of the wall clock
MaxObjects == 2       \* DashboardStats objects built
MaxCatalog == 1       \* records of a catalog with arbitrary content
MaxSample == 1        \* records of a statistics sample with arbitrary content

(***************************************************************************)
(* Program constants                                                       *)
(***************************************************************************)
MaxResults == 100     \* cap on n_results
CacheTtl == 15        \* self._cache_ttl, minutes
Scale == 10           \* distances and scores are counted in tenths: Scale is 1.0

Min(a, b) == IF a < b THEN a ELSE b
Max(a, b) == IF a > b THEN a ELSE b

(***************************************************************************)
(* Values held in store metadata (flat string / number fields, or a key    *)
(* that is missing).  v is the text of the value.                          *)
(***************************************************************************)
Str(s) == [t |-> "str", v |-> s]
Num(s) == [t |-> "num", v |-> s]
Absent == [t |-> "absent", v |-> ""]

\* Python truthiness of a metadata value (missing key: .get gives None)
Truthy(x) == /\ x.t # "absent"
             /\ ~(x.t = "str" /\ x.v = "")
             /\ ~(x.t = "num" /\ x.v = "0")

\* A JSON text is a sequence of tokens
Tok(k, s) == [k |-> k, s |-> s]
LBracket == Tok("[", "")
RBracket == Tok("]", "")
Comma == Tok(",", "")
JString(s) == Tok("string", s)
JNumber(s) == Tok("number", s)
JWord(s) == Tok("word", s)      \* bare text, not JSON

JObject == Tok("object", "")    \* a whole JSON object, e.g. {"a": 1}

IsScalarTok(tk) == tk.k \in {"string", "number", "object"}

\* json.dumps of a list of strings (ingest_data.py:283)
JsonDumps(list) ==
    <<LBracket>>
    \o [i \in 1..(IF Len(list) = 0 THEN 0 ELSE 2 * Len(list) - 1) |->
            IF i % 2 = 1 THEN JString(list[(i + 1) \div 2]) ELSE Comma]
    \o <<RBracket>>

\* json.loads: ok = FALSE is JSONDecodeError; kind is the Python type obtained
JsonLoads(text) ==
    LET n == Len(text)
        inner == SubSeq(text, 2, n - 1)
        m == Len(inner)
        wellFormedList ==
            /\ n >= 2
            /\ text[1] = LBracket
            /\ text[n] = RBracket
            /\ \/ m = 0
               \/ /\ m % 2 = 1
                  /\ \A i \in 1..m : IF i % 2 = 1 THEN IsScalarTok(inner[i])
                                                  ELSE inner[i] = Comma
    IN  IF n = 1 /\ IsScalarTok(text[1])
        THEN [ok |-> TRUE, kind |-> text[1].k, items |-> <<text[1]>>]
        ELSE IF wellFormedList
        THEN [ok |-> TRUE, kind |-> "list",
              items |-> [j \in 1..((m + 1) \div 2) |-> inner[2 * j - 1]]]
        ELSE [ok |-> FALSE, kind |-> "error", items |-> <<>>]

\* datetime.fromisoformat accepts exactly the texts of this shape
IsoTimestamps == {"2024-01-01T00:00:00"}

(***************************************************************************)
(* Store records.  A metadata dictionary has every key either missing      *)
(* (Absent) or holding a string or a number; present = FALSE is a record   *)
(* stored without metadata (the store answers None for it).                *)
(***************************************************************************)
TechText(tokens) == [t |-> "str", v |-> tokens]
TechNum(s) == [t |-> "num", v |-> <<JNumber(s)>>]
TechAbsent == [t |-> "absent", v |-> <<>>]

FullMetadata ==
    [present |-> TRUE,
     title |-> Str("AI-Based Traffic Management"),
     organization |-> Str("Ministry of Transport"),
     category |-> Str("Software"),
     description |-> Absent,
     technology_stack |-> TechText(JsonDumps(<<"Python", "React">>)),
     difficulty_level |-> Str("Hard"),
     created_at |-> Str("2024-01-01T00:00:00")]
WithDescription == [FullMetadata EXCEPT !.description = Str("Stored description")]
BadTechJson ==
    [FullMetadata EXCEPT !.technology_stack = TechText(<<JWord("invalid"), JWord("json")>>)]
TechNotAList == [FullMetadata EXCEPT !.technology_stack = TechText(<<JObject>>)]
BadCreatedAt == [FullMetadata EXCEPT !.created_at = Str("yesterday")]
NumericTitle == [FullMetadata EXCEPT !.title = Num("42")]
TechMissing == [FullMetadata EXCEPT !.technology_stack = TechAbsent]
BlankCategory == [FullMetadata EXCEPT !.category = Str("")]
EmptyTech == [FullMetadata EXCEPT !.technology_stack = TechText(<<>>)]
TitleOnly ==
    [present |-> TRUE,
     title |-> Str("Test Problem"),
     organization |-> Absent,
     category |-> Absent,
     description |-> Absent,
     technology_stack |-> TechAbsent,
     difficulty_level |-> Absent,
     created_at |-> Absent]
NoMetadata == [TitleOnly EXCEPT !.present = FALSE, !.title = Absent]

MetadataSamples == {FullMetadata, WithDescription, BadTechJson, TechNotAList,
                    BadCreatedAt, NumericTitle, TitleOnly, NoMetadata,
                    TechMissing, EmptyTech}

\* A document is None or a text, held as its lines (text.split('\n'))
NoDocument == [t |-> "none", lines |-> <<>>]
Document(lines) == [t |-> "str", lines |-> lines]
EmptyDocument == Document(<<"">>)
ThreeLineDocument == Document(<<"AI-Based Traffic Management",
                                "Develop an AI-powered traffic management system",
                                "Tech Stack: Python React">>)
OneLineDocument == Document(<<"Test Problem">>)
DocumentSamples == {NoDocument, EmptyDocument, OneLineDocument, ThreeLineDocument}

DocTruthy(doc) == doc.t = "str" /\ doc.lines # <<"">>

\* Cosine distances in tenths; -1 is the slightly negative distance that
\* floating point gives for coinciding vectors
DistanceSamples == {-1, 0, 3, 15}

\* metadata.get(key) on a present dictionary
TechTruthy(x) == /\ x.t # "absent"
                 /\ ~(x.t = "str" /\ x.v = <<>>)
                 /\ ~(x.t = "num" /\ x.v = <<JNumber("0")>>)

\* metadata.get(key, default)
GetOr(x, default) == IF x.t = "absent" THEN default ELSE x

(***************************************************************************)
(* Result mapper: SearchService._convert_metadata_to_problem               *)
(***************************************************************************)
EmptyList == [ok |-> TRUE, kind |-> "list", items |-> <<>>]

\* the same without the except clause: the decoding error is not turned into []
ParseTechStackUncaught(metadata) ==
    LET raw == metadata.technology_stack
    IN  IF ~TechTruthy(raw) THEN EmptyList
        ELSE JsonLoads(raw.v)
\* lines 85-90: json.loads of the stored text; JSONDecodeError and the
\* TypeError of a non-text value are caught and give []
ParseTechStack(metadata) ==
    LET raw == metadata.technology_stack
    IN  IF ~TechTruthy(raw) THEN EmptyList
        ELSE IF raw.t # "str" THEN EmptyList
        ELSE LET parsed == JsonLoads(raw.v)
             IN  IF parsed.ok THEN parsed ELSE EmptyList

\* lines 93-98: description from the metadata, else the second line of the document
ExtractDescription(metadata, document) ==
    LET d == GetOr(metadata.description, Str(""))
        fromMetadata == [t |-> d.t, lines |-> <<d.v>>]
    IN  IF ~Truthy(d) /\ DocTruthy(document)
        THEN IF Len(document.lines) >= 2
             THEN [t |-> "str", lines |-> <<document.lines[2]>>]
             ELSE fromMetadata
        ELSE fromMetadata

\* List[str] of the ProblemStatement model (pydantic v2: no coercion)
IsListOfStr(value) ==
    /\ value.kind = "list"
    /\ \A i \in 1..Len(value.items) : value.items[i].k = "string"

\* line 109: datetime.fromisoformat(metadata["created_at"]) if metadata.get("created_at") else None
CreatedAtRaises(metadata) ==
    /\ Truthy(metadata.created_at)
    /\ ~(metadata.created_at.t = "str" /\ metadata.created_at.v \in IsoTimestamps)

CreatedAt(metadata) ==
    IF Truthy(metadata.created_at) THEN <<metadata.created_at.v>> ELSE <<>>

\* line 113
Similarity(distance) == Max(0, Scale - distance)

\* models.py:30: Field(ge=0.0, le=1.0)
ScoreValid(score) == 0 <= score /\ score <= Scale

ProblemRecord(id, title, organization, category, description, tech, difficulty, created) ==
    [id |-> id, title |-> title, organization |-> organization, category |-> category,
     description |-> description, technology_stack |-> tech,
     difficulty_level |-> difficulty, created_at |-> created]

Returned(problem, score, fallback) ==
    [raised |-> FALSE,
     result |-> <<[problem |-> problem, similarity_score |-> score]>>,
     fallback |-> fallback]
Raised == [raised |-> TRUE, result |-> <<>>, fallback |-> TRUE]

\* lines 120-132: the except branch.  metadata.get on None and a title,
\* organization or category that is not a string raise again, out of the mapper
FallbackScore(distance) == 0

Fallback(doc_id, metadata, document, distance) ==
    IF ~metadata.present THEN Raised
    ELSE LET title == GetOr(metadata.title, Str("Unknown"))
             organization == GetOr(metadata.organization, Str("Unknown"))
             category == GetOr(metadata.category, Str("General"))
         IN  IF title.t = "str" /\ organization.t = "str" /\ category.t = "str"
             THEN Returned(ProblemRecord(doc_id, title.v, organization.v, category.v,
                                         IF DocTruthy(document) THEN document.lines ELSE <<"">>,
                                         <<>>, "Medium", <<>>),
                           FallbackScore(distance), TRUE)
             ELSE Raised

\* lines 83-118: the try branch; TryRaises is any exception raised inside it
TryRaises(metadata, document, distance) ==
    \/ ~metadata.present
    \/ GetOr(metadata.title, Str("")).t # "str"
    \/ GetOr(metadata.organization, Str("Unknown")).t # "str"
    \/ GetOr(metadata.category, Str("General")).t # "str"
    \/ ExtractDescription(metadata, document).t # "str"
    \/ ~IsListOfStr(ParseTechStack(metadata))
    \/ GetOr(metadata.difficulty_level, Str("Medium")).t # "str"
    \/ CreatedAtRaises(metadata)
    \/ ~ScoreValid(Similarity(distance))

ConvertNoFallback(doc_id, metadata, document, distance) ==
    IF TryRaises(metadata, document, distance) THEN Raised
    ELSE Returned(ProblemRecord(doc_id,
                                GetOr(metadata.title, Str("")).v,
                                GetOr(metadata.organization, Str("Unknown")).v,
                                GetOr(metadata.category, Str("General")).v,
                                ExtractDescription(metadata, document).lines,
                                [i \in 1..Len(ParseTechStack(metadata).items) |->
                                    ParseTechStack(metadata).items[i].s],
                                GetOr(metadata.difficulty_level, Str("Medium")).v,
                                CreatedAt(metadata)),
                  Similarity(distance), FALSE)

convert_metadata_to_problem(doc_id, metadata, document, distance) ==
    IF TryRaises(metadata, document, distance)
    THEN Fallback(doc_id, metadata, document, distance)
    ELSE ConvertNoFallback(doc_id, metadata, document, distance)

(***************************************************************************)
(* The mapper on its own: the inputs are drawn, ConvertCall applies it.    *)
(***************************************************************************)
MapperInputs ==
    [doc_id : {"sih_001"}, metadata : MetadataSamples,
     document : DocumentSamples, distance : DistanceSamples]

NotConverted == [raised |-> FALSE, result |-> <<>>, fallback |-> FALSE]

ConvertCall ==
    /\ mapper_out = NotConverted
    /\ mapper_out' = convert_metadata_to_problem(mapper_in.doc_id, mapper_in.metadata,
                                                 mapper_in.document, mapper_in.distance)
    /\ UNCHANGED <<mapper_in, search_vars, dash_vars, ingest_vars, github_vars, docgen_vars>>

(***************************************************************************)
(* What the outside world answers to SearchService                         *)
(***************************************************************************)
\* The embedding model loads or not; the store is unreachable (HttpClient
\* raises), answers no heartbeat, lacks the collection, or is ready.
StoreStates == {"unreachable", "heartbeat_fails", "no_collection", "ready"}
InitEnvs == [model_ok : BOOLEAN, store : StoreStates]
ReadyEnv == [model_ok |-> TRUE, store |-> "ready"]
EnvReady(env) == env.model_ok /\ env.store = "ready"

IdOf(i) == "sih_" \o ToString(i)

\* The (metadata, document) pairs of the records the store answers with
HitKinds ==
    {<<FullMetadata, ThreeLineDocument>>, <<BadTechJson, ThreeLineDocument>>,
     <<BadCreatedAt, ThreeLineDocument>>, <<NoMetadata, NoDocument>>}

\* The distances of the hits of a query
HitDistances == {0, 3}

Hit(i, kind, distance) ==
    [id |-> IdOf(i), metadata |-> kind[1], document |-> kind[2], distance |-> distance]

Ascending(ds) == \A i \in 1..(Len(ds) - 1) : ds[i] <= ds[i + 1]

\* Answer lists of k hits: any record kinds, nearest first
HitLists(k) ==
    {[i \in 1..k |-> Hit(i, kinds[i], ds[i])] :
        kinds \in [1..k -> HitKinds],
        ds \in {d \in [1..k -> HitDistances] : Ascending(d)}}

\* A store of more than MaxResults well-formed records, all far from the query
FillerHits(k) == [i \in 1..k |-> Hit(i, <<FullMetadata, ThreeLineDocument>>, 15)]

NoAnswer == [raises |-> FALSE, hits |-> <<>>]
StoreRaises == [raises |-> TRUE, hits |-> <<>>]
Answer(hits) == [raises |-> FALSE, hits |-> hits]

\* collection.query(n_results = n): at most n neighbours, nearest first; the
\* call may raise, and a store asked for fewer than one neighbour raises or
\* answers nothing
QueryAnswers(n) ==
    {StoreRaises}
    \cup (IF n < 1 THEN {NoAnswer}
          ELSE {Answer(h) : h \in UNION {HitLists(k) : k \in 0..Min(n, MaxHits)}}
               \cup {Answer(FillerHits(Min(n, BigStore)))})

\* collection.get(ids=[id]): nothing, or the one record of that id
GetAnswers(id) ==
    {StoreRaises, NoAnswer}
    \cup {Answer(<<[id |-> id, metadata |-> kind[1], document |-> kind[2], distance |-> 0]>>) :
            kind \in HitKinds \cup {<<NumericTitle, ThreeLineDocument>>}}

\* The (metadata, document) pairs of the records of a bulk read
CatalogKinds ==
    {<<FullMetadata, ThreeLineDocument>>, <<TitleOnly, OneLineDocument>>,
     <<NoMetadata, NoDocument>>}

\* collection.count() and collection.get(limit=min(1000, count)): the records sampled
SampleAnswers ==
    {StoreRaises}
    \cup {Answer(h) : h \in UNION {{[i \in 1..k |-> Hit(i, kinds[i], 0)] :
                                        kinds \in [1..k -> CatalogKinds]} : k \in 0..MaxSample}}

(***************************************************************************)
(* SearchService.initialize and _connect_to_chromadb                       *)
(***************************************************************************)
Fields(model, client, coll, init) ==
    [sentence_model |-> model, chroma_client |-> client,
     collection |-> coll, initialized |-> init]

CurrentFields == Fields(sentence_model, chroma_client, collection, search_initialized)

\* The outcome of initialize() under env: the fields afterwards, the model
\* loads and client constructions it made, and whether it raised
InitOutcome(f, loads, connects, raised) ==
    [fields |-> f, loads |-> loads, connects |-> connects, raised |-> raised]

\* the same with _initialized set before the connection is made
initialize_body_early_flag(f, env) ==
    IF ~env.model_ok THEN InitOutcome(f, 1, 0, TRUE)
    ELSE IF env.store = "unreachable"
    THEN InitOutcome([f EXCEPT !.sentence_model = TRUE, !.initialized = TRUE], 1, 1, TRUE)
    ELSE IF env.store \in {"heartbeat_fails", "no_collection"}
    THEN InitOutcome([f EXCEPT !.sentence_model = TRUE, !.chroma_client = TRUE,
                               !.initialized = TRUE], 1, 1, TRUE)
    ELSE InitOutcome(Fields(TRUE, TRUE, TRUE, TRUE), 1, 1, FALSE)
\* lines 40-55 with _connect_to_chromadb (57-79) inlined
initialize_body(f, env) ==
    IF ~env.model_ok THEN InitOutcome(f, 1, 0, TRUE)
    ELSE IF env.store = "unreachable"
    THEN InitOutcome([f EXCEPT !.sentence_model = TRUE], 1, 1, TRUE)
    ELSE IF env.store = "heartbeat_fails"
    THEN InitOutcome([f EXCEPT !.sentence_model = TRUE, !.chroma_client = TRUE], 1, 1, TRUE)
    ELSE IF env.store = "no_collection"
    THEN InitOutcome([f EXCEPT !.sentence_model = TRUE, !.chroma_client = TRUE], 1, 1, TRUE)
    ELSE InitOutcome(Fields(TRUE, TRUE, TRUE, TRUE), 1, 1, FALSE)

\* lines 37-38: the guard that makes initialize() a no-op once it has succeeded
initialize_unguarded(f, env) == initialize_body(f, env)
initialize(f, env) ==
    IF f.initialized THEN InitOutcome(f, 0, 0, FALSE)
    ELSE initialize_body(f, env)

\* The environments an operation can meet: none is consulted once initialised
EnvsFor(f) == IF f.initialized THEN {ReadyEnv} ELSE InitEnvs

(***************************************************************************)
(* SearchService operations                                                *)
(***************************************************************************)
NoProblem == <<>>
\* model_loads and connections count the SentenceTransformer(...) and
\* chromadb.HttpClient(...) constructions the operation made; reloaded says
\* that it loaded the model although an earlier attempt had left one loaded
Call(op, limit, env, o, n_results, answer) ==
    [op |-> op, limit |-> limit, env |-> env,
     model_loads |-> o.loads, connections |-> o.connects,
     reloaded |-> (o.loads > 0 /\ sentence_model),
     n_results |-> n_results, answer |-> answer]
Ret(kind, stage, results, problem, stats) ==
    [kind |-> kind, stage |-> stage, results |-> results, problem |-> problem, stats |-> stats]
NoStats == [total_problems |-> 0, categories |-> <<>>, organizations |-> <<>>]
NoQuery == -1

SetFields(o) ==
    /\ sentence_model' = o.fields.sentence_model
    /\ chroma_client' = o.fields.chroma_client
    /\ collection' = o.fields.collection
    /\ search_initialized' = o.fields.initialized

Initialize ==
    /\ \E env \in EnvsFor(CurrentFields) :
        LET o == initialize(CurrentFields, env)
        IN  /\ SetFields(o)
            /\ search_call' = Call("initialize", 0, env, o, NoQuery, NoAnswer)
            /\ search_ret' = IF o.raised
                             THEN Ret("SearchServiceError", "initialize", <<>>, NoProblem, NoStats)
                             ELSE Ret("ok", "done", <<>>, NoProblem, NoStats)
    /\ UNCHANGED <<conc_vars, mapper_vars, dash_vars, ingest_vars, github_vars, docgen_vars>>

\* lines 163-167: the number of neighbours asked for
NResultsUncapped(limit) == limit
NResults(limit) == Min(limit, MaxResults)

\* lines 170-183: every hit goes through the mapper, in the order received;
\* an exception out of the mapper ends the loop
Converted(hit) ==
    convert_metadata_to_problem(hit.id, hit.metadata, hit.document, hit.distance)

MapperRaises(hits) == \E i \in 1..Len(hits) : Converted(hits[i]).raised

SearchResults(hits) == [i \in 1..Len(hits) |-> Converted(hits[i]).result[1]]

\* search() once initialised: lines 151-187
search(limit, answer) ==
    IF answer.raises
    THEN Ret("SearchServiceError", "query", <<>>, NoProblem, NoStats)
    ELSE IF MapperRaises(answer.hits)
    THEN Ret("SearchServiceError", "mapper", <<>>, NoProblem, NoStats)
    ELSE Ret("ok", "done", SearchResults(answer.hits), NoProblem, NoStats)

Limits == {0, 1, 2, MaxResults + 1}

Search ==
    /\ \E limit \in Limits, env \in EnvsFor(CurrentFields) :
        LET o == initialize(CurrentFields, env)
        IN  /\ SetFields(o)
            /\ IF o.raised
               THEN /\ search_call' = Call("search", limit, env, o, NoQuery, NoAnswer)
                    /\ search_ret' = Ret("SearchServiceError", "initialize", <<>>, NoProblem, NoStats)
               ELSE \E answer \in QueryAnswers(NResults(limit)) :
                    /\ search_call' = Call("search", limit, env, o, NResults(limit), answer)
                    /\ search_ret' = search(limit, answer)
    /\ UNCHANGED <<conc_vars, mapper_vars, dash_vars, ingest_vars, github_vars, docgen_vars>>

\* the same with a miss reported as an error
get_problem_by_id_raising_on_miss(problem_id, answer) ==
    IF answer.raises \/ answer.hits = <<>>
    THEN Ret("SearchServiceError", "get", <<>>, NoProblem, NoStats)
    ELSE LET c == convert_metadata_to_problem(problem_id, answer.hits[1].metadata,
                                              answer.hits[1].document, 0)
         IN  IF c.raised
             THEN Ret("SearchServiceError", "mapper", <<>>, NoProblem, NoStats)
             ELSE Ret("ok", "done", <<>>, <<c.result[1].problem>>, NoStats)
\* get_problem_by_id() once initialised: lines 202-222
get_problem_by_id(problem_id, answer) ==
    IF answer.raises
    THEN Ret("SearchServiceError", "get", <<>>, NoProblem, NoStats)
    ELSE IF answer.hits # <<>> /\ answer.hits[1].id # ""
    THEN LET c == convert_metadata_to_problem(problem_id, answer.hits[1].metadata,
                                              answer.hits[1].document, 0)
         IN  IF c.raised
             THEN Ret("SearchServiceError", "mapper", <<>>, NoProblem, NoStats)
             ELSE Ret("ok", "done", <<>>, <<c.result[1].problem>>, NoStats)
    ELSE Ret("ok", "done", <<>>, NoProblem, NoStats)

ProblemIds == {IdOf(1)}

GetProblemById ==
    /\ \E problem_id \in ProblemIds, env \in EnvsFor(CurrentFields) :
        LET o == initialize(CurrentFields, env)
        IN  /\ SetFields(o)
            /\ IF o.raised
               THEN /\ search_call' = Call("get_problem_by_id", 0, env, o, NoQuery, NoAnswer)
                    /\ search_ret' = Ret("SearchServiceError", "initialize", <<>>, NoProblem, NoStats)
               ELSE \E answer \in GetAnswers(problem_id) :
                    /\ search_call' = Call("get_problem_by_id", 0, env, o, NoQuery, answer)
                    /\ search_ret' = get_problem_by_id(problem_id, answer)
    /\ UNCHANGED <<conc_vars, mapper_vars, dash_vars, ingest_vars, github_vars, docgen_vars>>

\* A dict of counts, as the sequence of its (key, count) pairs in insertion order
CountInto(counts, key) ==
    IF \E i \in 1..Len(counts) : counts[i].key = key
    THEN [i \in 1..Len(counts) |->
            IF counts[i].key = key
            THEN [key |-> key, count |-> counts[i].count + 1]
            ELSE counts[i]]
    ELSE Append(counts, [key |-> key, count |-> 1])

RECURSIVE CountAll(_)
CountAll(keys) ==
    IF keys = <<>> THEN <<>>
    ELSE CountInto(CountAll(SubSeq(keys, 1, Len(keys) - 1)), keys[Len(keys)])

\* get_collection_stats() once initialised: lines 234-263; metadata.get on a
\* record stored without metadata raises
get_collection_stats(answer) ==
    IF answer.raises \/ \E i \in 1..Len(answer.hits) : ~answer.hits[i].metadata.present
    THEN Ret("SearchServiceError", "stats", <<>>, NoProblem, NoStats)
    ELSE Ret("ok", "done", <<>>, NoProblem,
             [total_problems |-> Len(answer.hits),
              categories |-> CountAll([i \in 1..Len(answer.hits) |->
                                GetOr(answer.hits[i].metadata.category, Str("Unknown"))]),
              organizations |-> CountAll([i \in 1..Len(answer.hits) |->
                                GetOr(answer.hits[i].metadata.organization, Str("Unknown"))])])

GetCollectionStats ==
    /\ \E env \in EnvsFor(CurrentFields) :
        LET o == initialize(CurrentFields, env)
        IN  /\ SetFields(o)
            /\ IF o.raised
               THEN /\ search_call' = Call("get_collection_stats", 0, env, o, NoQuery, NoAnswer)
                    /\ search_ret' = Ret("SearchServiceError", "initialize", <<>>, NoProblem, NoStats)
               ELSE \E answer \in SampleAnswers :
                    /\ search_call' = Call("get_collection_stats", 0, env, o, NoQuery, answer)
                    /\ search_ret' = get_collection_stats(answer)
    /\ UNCHANGED <<conc_vars, mapper_vars, dash_vars, ingest_vars, github_vars, docgen_vars>>

\* health_check(): lines 272-296.  It initialises, runs search("test", 1) and
\* get_collection_stats(), and turns every exception into an unhealthy status
HealthLimit == 1

\* The dictionary a health check returns: the status (kind), the place of
\* the failure (stage), the "error" text when there is one and the
\* "initialized" flag
HealthReport(ret, initialized) ==
    ret @@ [initialized |-> initialized,
            error |-> IF ret.kind = "healthy" THEN <<>> ELSE <<ret.stage>>]

\* the same without the except clause: a failure of the smoke-test query or
\* of the statistics leaves health_check as the exception it is
health_check_propagating(queryAnswer, sampleAnswer) ==
    LET s == search(HealthLimit, queryAnswer)
        c == get_collection_stats(sampleAnswer)
    IN  IF s.kind # "ok" THEN HealthReport(s, TRUE)
        ELSE IF c.kind # "ok" THEN HealthReport(c, TRUE)
        ELSE HealthReport(Ret("healthy", "done", s.results, NoProblem, c.stats), TRUE)
health_check(queryAnswer, sampleAnswer) ==
    LET s == search(HealthLimit, queryAnswer)
        c == get_collection_stats(sampleAnswer)
    IN  IF s.kind # "ok"
        THEN HealthReport(Ret("unhealthy", s.stage, <<>>, NoProblem, NoStats), TRUE)
        ELSE IF c.kind # "ok"
        THEN HealthReport(Ret("unhealthy", c.stage, <<>>, NoProblem, NoStats), TRUE)
        ELSE HealthReport(Ret("healthy", "done", s.results, NoProblem, c.stats), TRUE)

HealthCheck ==
    /\ \E env \in EnvsFor(CurrentFields) :
        LET o == initialize(CurrentFields, env)
        IN  /\ SetFields(o)
            /\ IF o.raised
               THEN /\ search_call' = Call("health_check", HealthLimit, env, o, NoQuery, NoAnswer)
                                        @@ [sample |-> NoAnswer]
                    /\ search_ret' = HealthReport(
                            Ret("unhealthy", "initialize", <<>>, NoProblem, NoStats),
                            o.fields.initialized)
               ELSE \E queryAnswer \in QueryAnswers(NResults(HealthLimit)),
                       sampleAnswer \in SampleAnswers :
                    /\ search_call' = Call("health_check", HealthLimit, env, o,
                                           NResults(HealthLimit), queryAnswer)
                                        @@ [sample |-> sampleAnswer]
                    /\ search_ret' = health_check(queryAnswer, sampleAnswer)
    /\ UNCHANGED <<conc_vars, mapper_vars, dash_vars, ingest_vars, github_vars, docgen_vars>>

SearchNext == Initialize \/ Search \/ GetProblemById \/ GetCollectionStats \/ HealthCheck

(***************************************************************************)
(* Concurrent callers of one SearchService.  The operations are coroutines *)
(* run by the asyncio event loop: a caller keeps the loop until it awaits  *)
(* something that suspends.                                                *)
(***************************************************************************)
MaxCallers == 2
CallerOps == {"search", "get_problem_by_id", "get_collection_stats", "health_check"}
NewTask == [op |-> "none", pc |-> "new"]

\* the same with a connection that hands control back to the event loop
connect_suspends_always == TRUE
\* lines 49-50 and 57-79: `await self._connect_to_chromadb()` runs a coroutine
\* whose body (HttpClient, heartbeat, get_collection) awaits nothing, so the
\* caller is not suspended between the model load and `_initialized = True`;
\* nor is it at `await self.initialize()` (lines 148-149)
connect_suspends == FALSE

\* lines 50-55 for a caller resumed after the model load
resume_connect(f, env) ==
    LET b == initialize_body(f, [env EXCEPT !.model_ok = TRUE])
    IN  InitOutcome(b.fields, 0, b.connects, b.raised)

\* the models an initialization loaded (line 47 returned) and the
\* connections it opened (lines 62-65 returned a client)
Loaded(o, env) == IF env.model_ok THEN o.loads ELSE 0
Opened(o, env) == IF env.store # "unreachable" THEN o.connects ELSE 0

\* what a caller's operation does when its initialization raised
FailedOutcome(op, env, o) ==
    IF op = "health_check"
    THEN [call |-> Call(op, HealthLimit, env, o, NoQuery, NoAnswer) @@ [sample |-> NoAnswer],
          ret |-> HealthReport(Ret("unhealthy", "initialize", <<>>, NoProblem, NoStats),
                               o.fields.initialized)]
    ELSE [call |-> Call(op, 0, env, o, NoQuery, NoAnswer),
          ret |-> Ret("SearchServiceError", "initialize", <<>>, NoProblem, NoStats)]

\* what the store answers a caller: an exception or an empty result
CallerAnswers == {StoreRaises, NoAnswer}

\* what it does once the service is initialized, per answer of the store
Outcomes(op, env, o) ==
    IF op = "search"
    THEN {[call |-> Call(op, 1, env, o, NResults(1), a), ret |-> search(1, a)] :
            a \in CallerAnswers}
    ELSE IF op = "get_problem_by_id"
    THEN {[call |-> Call(op, 0, env, o, NoQuery, a), ret |-> get_problem_by_id(IdOf(1), a)] :
            a \in CallerAnswers}
    ELSE IF op = "get_collection_stats"
    THEN {[call |-> Call(op, 0, env, o, NoQuery, a), ret |-> get_collection_stats(a)] :
            a \in CallerAnswers}
    ELSE {[call |-> Call(op, HealthLimit, env, o, NResults(HealthLimit), a[1])
                        @@ [sample |-> a[2]],
           ret |-> health_check(a[1], a[2])] :
            a \in CallerAnswers \X CallerAnswers}

\* asyncio.create_task / gather: the callers are all started before the
\* event loop runs the first of them
CreateTask ==
    /\ \A j \in 1..MaxCallers : tasks[j].pc \in {"new", "scheduled"}
    /\ \E i \in 1..MaxCallers, op \in CallerOps :
        /\ tasks[i].pc = "new"
        /\ tasks' = [tasks EXCEPT ![i] = [op |-> op, pc |-> "scheduled"]]
    /\ UNCHANGED <<sentence_model, chroma_client, collection, search_initialized,
                   search_call, search_ret, init_totals,
                   mapper_vars, dash_vars, ingest_vars, github_vars, docgen_vars>>

\* the event loop runs one of the callers up to its next suspension
RunTask ==
    /\ \E i \in 1..MaxCallers :
        /\ tasks[i].pc \in {"scheduled", "connecting"}
        /\ LET f == CurrentFields
               resumed == tasks[i].pc = "connecting"
           IN  \E env \in (IF resumed THEN InitEnvs ELSE EnvsFor(f)) :
               IF ~resumed /\ connect_suspends /\ ~f.initialized /\ env.model_ok
               THEN /\ sentence_model' = TRUE
                    /\ tasks' = [tasks EXCEPT ![i].pc = "connecting"]
                    /\ init_totals' = [init_totals EXCEPT !.model_loads = @ + 1]
                    /\ UNCHANGED <<chroma_client, collection, search_initialized,
                                   search_call, search_ret>>
               ELSE LET o == IF resumed THEN resume_connect(f, env) ELSE initialize(f, env)
                    IN  /\ SetFields(o)
                        /\ tasks' = [tasks EXCEPT ![i].pc = "done"]
                        /\ init_totals' =
                              [model_loads |-> init_totals.model_loads + Loaded(o, env),
                               connections |-> init_totals.connections + Opened(o, env),
                               failed |-> init_totals.failed + (IF o.raised THEN 1 ELSE 0)]
                        /\ \E r \in (IF o.raised THEN {FailedOutcome(tasks[i].op, env, o)}
                                     ELSE Outcomes(tasks[i].op, env, o)) :
                            /\ search_call' = r.call
                            /\ search_ret' = r.ret
    /\ UNCHANGED <<mapper_vars, dash_vars, ingest_vars, github_vars, docgen_vars>>

CallersNext == CreateTask \/ RunTask

(***************************************************************************)
(* DashboardService: what the store answers                                *)
(***************************************************************************)
\* collection.count() and the paged collection.get(): the whole catalog
DashKinds == CatalogKinds \cup {<<BlankCategory, ThreeLineDocument>>}

CatalogAnswers ==
    {StoreRaises}
    \cup {Answer(h) : h \in UNION {{[i \in 1..k |-> Hit(i, kinds[i], 0)] :
                                        kinds \in [1..k -> DashKinds]} : k \in 0..MaxCatalog}}

\* the same for a catalog of at most one record
SmallCatalogAnswers ==
    {StoreRaises, Answer(<<>>)} \cup {Answer(<<Hit(1, kind, 0)>>) : kind \in DashKinds}

(***************************************************************************)
(* DashboardService.initialize and _connect_to_chromadb (lines 52-91)      *)
(***************************************************************************)
DashFields(client, coll, init) ==
    [chroma_client |-> client, collection |-> coll, initialized |-> init]
CurrentDashFields == DashFields(dash_client, dash_collection, dash_initialized)

dash_initialize(f, store) ==
    IF f.initialized THEN [fields |-> f, raised |-> FALSE]
    ELSE IF store = "unreachable" THEN [fields |-> f, raised |-> TRUE]
    ELSE IF store \in {"heartbeat_fails", "no_collection"}
    THEN [fields |-> [f EXCEPT !.chroma_client = TRUE], raised |-> TRUE]
    ELSE [fields |-> DashFields(TRUE, TRUE, TRUE), raised |-> FALSE]

StoresFor(f) == IF f.initialized THEN {"ready"} ELSE StoreStates

SetDashFields(o) ==
    /\ dash_client' = o.fields.chroma_client
    /\ dash_collection' = o.fields.collection
    /\ dash_initialized' = o.fields.initialized

(***************************************************************************)
(* _fetch_all_problem_data (lines 156-190): the catalog read page by page  *)
(***************************************************************************)
BatchSize == 1000
MaxCount == 2001

\* A catalog of n records that stays as it is during the scan.  A record is
\* identified by its place in the store's order
CatalogOf(n) == [i \in 1..n |-> i]

\* collection.get(limit, offset): the records from place offset + 1 on, at
\* most limit of them
store_get(catalog, limit, offset) ==
    SubSeq(catalog, offset + 1, Min(Len(catalog), offset + limit))

\* range(start, stop, step) for a positive step
RECURSIVE range_step(_, _, _)
range_step(start, stop, step) ==
    IF start >= stop THEN <<>>
    ELSE <<start>> \o range_step(start + step, stop, step)

\* the same with every page asked for in full
page_limit_whole_batch(total_count, offset) == BatchSize
\* line 169
page_limit(total_count, offset) == Min(BatchSize, total_count - offset)

ScanResult(pc, reads, all_data) == [pc |-> pc, reads |-> reads, all_data |-> all_data]

\* lines 167-183: one collection.get per offset; failing is the number of
\* the page read that raises (none if there is no such read)
RECURSIVE scan_pages(_, _, _, _, _)
scan_pages(catalog, total_count, offsets, failing, acc) ==
    IF offsets = <<>> THEN ScanResult("returned", acc.reads, acc.all_data)
    ELSE LET offset == Head(offsets)
             limit == page_limit(total_count, offset)
             reads == Append(acc.reads, [limit |-> limit, offset |-> offset])
         IN  IF failing = Len(reads)
             THEN ScanResult("DashboardServiceError", reads, <<>>)
             ELSE scan_pages(catalog, total_count, Tail(offsets), failing,
                             [reads |-> reads,
                              all_data |-> acc.all_data \o store_get(catalog, limit, offset)])

\* failing = 0: collection.count() raises (line 160)
fetch_all_problem_data(catalog, failing) ==
    IF failing = 0 THEN ScanResult("DashboardServiceError", <<>>, <<>>)
    ELSE scan_pages(catalog, Len(catalog), range_step(0, Len(catalog), BatchSize), failing,
                    [reads |-> <<>>, all_data |-> <<>>])

NoFailure == -1
Failings == {NoFailure, 0, 1, 2}
NoScan == [n |-> 0, failing |-> NoFailure] @@ ScanResult("none", <<>>, <<>>)

\* one scan per behaviour, of a catalog of any size
FetchAllProblemData ==
    /\ scan.pc = "none"
    /\ \E n \in 0..MaxCount, failing \in Failings :
        scan' = [n |-> n, failing |-> failing]
                    @@ fetch_all_problem_data(CatalogOf(n), failing)
    /\ UNCHANGED <<dash_initialized, dash_client, dash_collection, cache, cache_timestamp, now,
                   next_object, dash_call, dash_ret, dash_hist,
                   search_vars, mapper_vars, ingest_vars, github_vars, docgen_vars>>

(***************************************************************************)
(* Statistics (lines 192-290)                                              *)
(***************************************************************************)
WhitespaceOnly == {"", " "}
Strip(s) == IF s \in WhitespaceOnly THEN "" ELSE s

\* Counter over the non-empty stripped values of one metadata key
RECURSIVE CountKeys(_)
CountKeys(keys) ==
    IF keys = <<>> THEN <<>>
    ELSE LET rest == CountKeys(SubSeq(keys, 1, Len(keys) - 1))
             key == Strip(keys[Len(keys)])
         IN  IF key = "" THEN rest ELSE CountInto(rest, key)

\* Counter.most_common(n): by count, largest first, ties in insertion order
RECURSIVE MostCommon(_, _)
MostCommon(counts, n) ==
    IF n = 0 \/ counts = <<>> THEN <<>>
    ELSE LET best == CHOOSE i \in 1..Len(counts) :
                        /\ \A j \in 1..Len(counts) : counts[j].count <= counts[i].count
                        /\ \A j \in 1..(i - 1) : counts[j].count < counts[i].count
             rest == [j \in 1..(Len(counts) - 1) |->
                        IF j < best THEN counts[j] ELSE counts[j + 1]]
         IN  <<counts[best]>> \o MostCommon(rest, n - 1)

TopOrganizations == 10

\* .strip() on the category or organization raises unless it is a string;
\* metadata.get raises on a record stored without metadata
StatsRaise(data) ==
    \E i \in 1..Len(data) :
        \/ ~data[i].metadata.present
        \/ GetOr(data[i].metadata.category, Str("Unknown")).t # "str"
        \/ GetOr(data[i].metadata.organization, Str("Unknown")).t # "str"

\* _analyze_categories (192-202)
analyze_categories(data) ==
    CountKeys([i \in 1..Len(data) |-> GetOr(data[i].metadata.category, Str("Unknown")).v])

\* _analyze_organizations (204-214)
analyze_organizations(data) ==
    CountKeys([i \in 1..Len(data) |-> GetOr(data[i].metadata.organization, Str("Unknown")).v])

\* A DashboardStats object: object is its identity (what `is` compares).
\* top_keywords is left out: nothing below reads it.
DashboardStats(object, categories, top_organizations, total_problems) ==
    [object |-> object, categories |-> categories,
     top_organizations |-> top_organizations, total_problems |-> total_problems]

\* _generate_dashboard_stats (265-290)
generate_dashboard_stats(data, object) ==
    DashboardStats(object, analyze_categories(data),
                   MostCommon(analyze_organizations(data), TopOrganizations), Len(data))

(***************************************************************************)
(* The cache (lines 93-97, 292-340, 390-394)                               *)
(***************************************************************************)
NoTime == -1

is_cache_valid_inverted(timestamp, t) ==
    /\ timestamp # NoTime
    /\ (t - timestamp) * MinutesPerTick > CacheTtl
\* _is_cache_valid at wall-clock time t
is_cache_valid(timestamp, t) ==
    /\ timestamp # NoTime
    /\ (t - timestamp) * MinutesPerTick < CacheTtl

\* line 310: the condition under which the cached object is returned
served_from_cache_ignoring_force(force_refresh, c, timestamp, t) ==
    is_cache_valid(timestamp, t) /\ c # <<>>
served_from_cache(force_refresh, c, timestamp, t) ==
    ~force_refresh /\ is_cache_valid(timestamp, t) /\ c # <<>>

DashCall(op, force_refresh, store, fetched, answer) ==
    [op |-> op, force_refresh |-> force_refresh, store |-> store,
     fetched |-> fetched, answer |-> answer]
NoSnapshot == <<>>
DashRet(kind, stage, stats) == [kind |-> kind, stage |-> stage, stats |-> stats]

\* History of the get_dashboard_stats and clear_cache calls:
\*   ok_time, ok_object  when the last successful get_dashboard_stats call was
\*                       made and the object it returned
\*   cleared             clear_cache was called since that call
\*   stored_object       the object the last recomputation stored (0: none, or cleared)
\*   discarded           the object the last clear_cache dropped (0: none)
\*   after_clear         the last get_dashboard_stats call was the first
\*                       successful or failed call made after a clear_cache
NoHistory == [ok_time |-> NoTime, ok_object |-> 0, cleared |-> FALSE,
              stored_object |-> 0, discarded |-> 0, after_clear |-> FALSE]

\* The wall clock advances between calls
Tick ==
    /\ now < MaxTime
    /\ now' = now + 1
    /\ UNCHANGED <<dash_initialized, dash_client, dash_collection, cache, cache_timestamp,
                   next_object, dash_call, dash_ret, dash_hist, scan, search_vars, mapper_vars, ingest_vars, github_vars, docgen_vars>>

DashInitialize ==
    /\ \E store \in StoresFor(CurrentDashFields) :
        LET o == dash_initialize(CurrentDashFields, store)
        IN  /\ SetDashFields(o)
            /\ dash_call' = DashCall("initialize", FALSE, store, FALSE, NoAnswer)
            /\ dash_ret' = IF o.raised
                           THEN DashRet("DashboardServiceError", "initialize", NoSnapshot)
                           ELSE DashRet("ok", "done", NoSnapshot)
    /\ UNCHANGED <<cache, cache_timestamp, now, next_object, dash_hist,
                   scan, search_vars, mapper_vars, ingest_vars, github_vars, docgen_vars>>

\* the same with the cache dropped when the recomputation fails
get_dashboard_stats_dropping_cache(force_refresh, answer, t) ==
    IF served_from_cache(force_refresh, cache, cache_timestamp, t)
    THEN [ret |-> DashRet("ok", "cached", cache), cache |-> cache,
          timestamp |-> cache_timestamp, fetched |-> FALSE, built |-> 0]
    ELSE IF answer.raises
    THEN [ret |-> DashRet("DashboardServiceError", "fetch", NoSnapshot), cache |-> <<>>,
          timestamp |-> NoTime, fetched |-> TRUE, built |-> 0]
    ELSE IF answer.hits = <<>>
    THEN [ret |-> DashRet("ok", "empty", <<DashboardStats(next_object, <<>>, <<>>, 0)>>),
          cache |-> cache, timestamp |-> cache_timestamp,
          fetched |-> TRUE, built |-> 1]
    ELSE IF StatsRaise(answer.hits)
    THEN [ret |-> DashRet("DashboardServiceError", "generate", NoSnapshot), cache |-> <<>>,
          timestamp |-> NoTime, fetched |-> TRUE, built |-> 0]
    ELSE LET stats == generate_dashboard_stats(answer.hits, next_object)
         IN  [ret |-> DashRet("ok", "computed", <<stats>>), cache |-> <<stats>>,
              timestamp |-> t, fetched |-> TRUE, built |-> 1]
\* get_dashboard_stats once initialised (lines 308-340), called at time t
\* with the catalog scan answering `answer`
get_dashboard_stats(force_refresh, answer, t) ==
    IF served_from_cache(force_refresh, cache, cache_timestamp, t)
    THEN [ret |-> DashRet("ok", "cached", cache), cache |-> cache,
          timestamp |-> cache_timestamp, fetched |-> FALSE, built |-> 0]
    ELSE IF answer.raises
    THEN [ret |-> DashRet("DashboardServiceError", "fetch", NoSnapshot), cache |-> cache,
          timestamp |-> cache_timestamp, fetched |-> TRUE, built |-> 0]
    ELSE IF answer.hits = <<>>
    THEN [ret |-> DashRet("ok", "empty", <<DashboardStats(next_object, <<>>, <<>>, 0)>>),
          cache |-> cache, timestamp |-> cache_timestamp,
          fetched |-> TRUE, built |-> 1]
    ELSE IF StatsRaise(answer.hits)
    THEN [ret |-> DashRet("DashboardServiceError", "generate", NoSnapshot), cache |-> cache,
          timestamp |-> cache_timestamp, fetched |-> TRUE, built |-> 0]
    ELSE LET stats == generate_dashboard_stats(answer.hits, next_object)
         IN  [ret |-> DashRet("ok", "computed", <<stats>>), cache |-> <<stats>>,
              timestamp |-> t, fetched |-> TRUE, built |-> 1]

GetDashboardStatsOn(answers) ==
    /\ next_object <= MaxObjects
    /\ \E force_refresh \in BOOLEAN, store \in StoresFor(CurrentDashFields) :
        LET o == dash_initialize(CurrentDashFields, store)
        IN  /\ SetDashFields(o)
            /\ IF o.raised
               THEN /\ dash_call' = DashCall("get_dashboard_stats", force_refresh, store,
                                             FALSE, NoAnswer)
                    /\ dash_ret' = DashRet("DashboardServiceError", "initialize", NoSnapshot)
                    /\ dash_hist' = [dash_hist EXCEPT !.after_clear = dash_hist.cleared]
                    /\ UNCHANGED <<cache, cache_timestamp, now, next_object>>
               ELSE \E answer \in answers :
                    LET r == get_dashboard_stats(force_refresh, answer, now)
                    IN  /\ dash_call' = DashCall("get_dashboard_stats", force_refresh, store,
                                                 r.fetched,
                                                 IF r.fetched THEN answer ELSE NoAnswer)
                        /\ dash_ret' = r.ret
                        /\ cache' = r.cache
                        /\ cache_timestamp' = r.timestamp
                        /\ now' = now
                        /\ next_object' = next_object + r.built
                        /\ dash_hist' =
                             IF r.ret.kind = "ok"
                             THEN [dash_hist EXCEPT
                                     !.ok_time = now,
                                     !.ok_object = r.ret.stats[1].object,
                                     !.cleared = FALSE,
                                     !.stored_object = IF r.ret.stage = "computed"
                                                       THEN r.ret.stats[1].object ELSE @,
                                     !.after_clear = dash_hist.cleared]
                             ELSE [dash_hist EXCEPT !.after_clear = dash_hist.cleared]
    /\ UNCHANGED <<scan, search_vars, mapper_vars, ingest_vars, github_vars, docgen_vars>>
GetDashboardStats == GetDashboardStatsOn(CatalogAnswers)

\* the history after a get_dashboard_stats call that gave r
HistAfter(r) ==
    IF r.ret.kind = "ok"
    THEN [dash_hist EXCEPT
            !.ok_time = now,
            !.ok_object = r.ret.stats[1].object,
            !.cleared = FALSE,
            !.stored_object = IF r.ret.stage = "computed" THEN r.ret.stats[1].object ELSE @,
            !.after_clear = dash_hist.cleared]
    ELSE [dash_hist EXCEPT !.after_clear = dash_hist.cleared]

\* round(100 * count / total, 1), in tenths of a percent: the nearest
\* integer to 1000 * count / total, an exact tie going to the even one
RoundHalfEven(num, den) ==
    LET q == num \div den
        r == num % den
    IN  IF 2 * r < den THEN q
        ELSE IF 2 * r > den THEN q + 1
        ELSE IF q % 2 = 0 THEN q ELSE q + 1

Percentage(count, total) == RoundHalfEven(1000 * count, total)

\* the same with a refresh asked for by the reading operations
default_force_refresh_set == TRUE
\* line 292: get_dashboard_stats() as get_category_breakdown (344),
\* get_technology_trends (365) and health_check (408) call it, without
\* argument, takes force_refresh = False
default_force_refresh == FALSE

\* get_category_breakdown (342-361) on the snapshot get_dashboard_stats gave
category_breakdown(stats) ==
    IF stats.total_problems = 0 THEN [categories |-> <<>>, total |-> 0]
    ELSE [categories |->
            [i \in 1..Len(stats.categories) |->
                [key |-> stats.categories[i].key,
                 count |-> stats.categories[i].count,
                 percentage |-> Percentage(stats.categories[i].count, stats.total_problems)]],
          total |-> stats.total_problems]

NoBreakdown == [categories |-> <<>>, total |-> -1]

GetCategoryBreakdownOn(answers) ==
    /\ next_object <= MaxObjects
    /\ \E store \in StoresFor(CurrentDashFields) :
        LET o == dash_initialize(CurrentDashFields, store)
        IN  /\ SetDashFields(o)
            /\ IF o.raised
               THEN /\ dash_call' = DashCall("get_category_breakdown", FALSE, store,
                                             FALSE, NoAnswer)
                    /\ dash_ret' = DashRet("DashboardServiceError", "initialize", NoSnapshot)
                                    @@ [breakdown |-> NoBreakdown]
                    /\ dash_hist' = [dash_hist EXCEPT !.after_clear = dash_hist.cleared]
                    /\ UNCHANGED <<cache, cache_timestamp, now, next_object>>
               ELSE \E answer \in answers :
                    LET r == get_dashboard_stats(default_force_refresh, answer, now)
                    IN  /\ dash_call' = DashCall("get_category_breakdown", FALSE, store,
                                                 r.fetched,
                                                 IF r.fetched THEN answer ELSE NoAnswer)
                        /\ dash_ret' = r.ret @@ [breakdown |->
                                            IF r.ret.kind = "ok"
                                            THEN category_breakdown(r.ret.stats[1])
                                            ELSE NoBreakdown]
                        /\ cache' = r.cache
                        /\ cache_timestamp' = r.timestamp
                        /\ now' = now
                        /\ next_object' = next_object + r.built
                        /\ dash_hist' = HistAfter(r)
    /\ UNCHANGED <<scan, search_vars, mapper_vars, ingest_vars, github_vars, docgen_vars>>
GetCategoryBreakdown == GetCategoryBreakdownOn(CatalogAnswers)

\* get_technology_trends (363-388) on the snapshot get_dashboard_stats gave.
\* The model's DashboardStats carries no top_keywords: the trends are
\* recorded as the snapshot object whose keywords they split into
\* technology and domain keywords
technology_trends(stats) == [of_object |-> stats.object]

NoTrends == [of_object |-> 0]

GetTechnologyTrendsOn(answers) ==
    /\ next_object <= MaxObjects
    /\ \E store \in StoresFor(CurrentDashFields) :
        LET o == dash_initialize(CurrentDashFields, store)
        IN  /\ SetDashFields(o)
            /\ IF o.raised
               THEN /\ dash_call' = DashCall("get_technology_trends", FALSE, store,
                                             FALSE, NoAnswer)
                    /\ dash_ret' = DashRet("DashboardServiceError", "initialize", NoSnapshot)
                                    @@ [trends |-> NoTrends]
                    /\ dash_hist' = [dash_hist EXCEPT !.after_clear = dash_hist.cleared]
                    /\ UNCHANGED <<cache, cache_timestamp, now, next_object>>
               ELSE \E answer \in answers :
                    LET r == get_dashboard_stats(default_force_refresh, answer, now)
                    IN  /\ dash_call' = DashCall("get_technology_trends", FALSE, store,
                                                 r.fetched,
                                                 IF r.fetched THEN answer ELSE NoAnswer)
                        /\ dash_ret' = r.ret @@ [trends |->
                                            IF r.ret.kind = "ok"
                                            THEN technology_trends(r.ret.stats[1])
                                            ELSE NoTrends]
                        /\ cache' = r.cache
                        /\ cache_timestamp' = r.timestamp
                        /\ now' = now
                        /\ next_object' = next_object + r.built
                        /\ dash_hist' = HistAfter(r)
    /\ UNCHANGED <<scan, search_vars, mapper_vars, ingest_vars, github_vars, docgen_vars>>
GetTechnologyTrends == GetTechnologyTrendsOn(CatalogAnswers)

\* the same without the except clause
dash_health_check_propagating(ret, initialized) == HealthReport(ret, initialized)
\* DashboardService.health_check (396-427) once get_dashboard_stats, or the
\* initialisation before it, has given ret: every exception becomes an
\* unhealthy status
dash_health_check(ret, initialized) ==
    IF ret.kind = "ok"
    THEN HealthReport(DashRet("healthy", "done", ret.stats), initialized)
    ELSE HealthReport(DashRet("unhealthy", ret.stage, NoSnapshot), initialized)

DashHealthCheckOn(answers) ==
    /\ next_object <= MaxObjects
    /\ \E store \in StoresFor(CurrentDashFields) :
        LET o == dash_initialize(CurrentDashFields, store)
        IN  /\ SetDashFields(o)
            /\ IF o.raised
               THEN /\ dash_call' = DashCall("health_check", FALSE, store, FALSE, NoAnswer)
                    /\ dash_ret' = dash_health_check(
                            DashRet("DashboardServiceError", "initialize", NoSnapshot),
                            o.fields.initialized)
                    /\ UNCHANGED <<cache, cache_timestamp, now, next_object, dash_hist>>
               ELSE \E answer \in answers :
                    LET r == get_dashboard_stats(default_force_refresh, answer, now)
                    IN  /\ dash_call' = DashCall("health_check", FALSE, store, r.fetched,
                                                 IF r.fetched THEN answer ELSE NoAnswer)
                        /\ dash_ret' = dash_health_check(r.ret, o.fields.initialized)
                        /\ cache' = r.cache
                        /\ cache_timestamp' = r.timestamp
                        /\ now' = now
                        /\ next_object' = next_object + r.built
                        /\ dash_hist' = HistAfter(r)
    /\ UNCHANGED <<scan, search_vars, mapper_vars, ingest_vars, github_vars, docgen_vars>>
DashHealthCheck == DashHealthCheckOn(CatalogAnswers)

\* clear_cache (390-394)
clear_cache_keeping_timestamp == [cache |-> <<>>, timestamp |-> cache_timestamp]
clear_cache == [cache |-> <<>>, timestamp |-> NoTime]

ClearCache ==
    /\ cache' = clear_cache.cache
    /\ cache_timestamp' = clear_cache.timestamp
    /\ dash_call' = DashCall("clear_cache", FALSE, "ready", FALSE, NoAnswer)
    /\ dash_ret' = DashRet("ok", "done", NoSnapshot)
    /\ dash_hist' = [dash_hist EXCEPT !.cleared = TRUE, !.stored_object = 0,
                                      !.discarded = IF cache = <<>> THEN 0
                                                    ELSE cache[1].object]
    /\ UNCHANGED <<dash_initialized, dash_client, dash_collection, now, next_object,
                   scan, search_vars, mapper_vars, ingest_vars, github_vars, docgen_vars>>

DashNext == Tick \/ DashInitialize \/ GetDashboardStats \/ ClearCache

(***************************************************************************)
(* Offline ingestion (backend/scripts/ingest_data.py and                   *)
(* scripts/ingest_data.py): one raw record is validated and stored, then   *)
(* read back through SearchService.get_problem_by_id.                      *)
(***************************************************************************)
\* sep.join(items)
RECURSIVE Join(_, _)
Join(items, sep) ==
    IF items = <<>> THEN ""
    ELSE IF Len(items) = 1 THEN items[1]
    ELSE items[1] \o sep \o Join(Tail(items), sep)

\* The orders in which the elements of a set can come out of list(set(...))
Orders(S) ==
    {f \in [1..Cardinality(S) -> S] : \A i, j \in 1..Cardinality(S) : f[i] = f[j] => i = j}

\* What a raw record holds under the key technology_stack
RawAbsent == [t |-> "absent", v |-> <<>>]
RawList(list) == [t |-> "list", v |-> list]
RawText(text) == [t |-> "str", v |-> <<text>>]
RawNumber == [t |-> "num", v |-> <<>>]
RawTechSamples ==
    {RawAbsent, RawList(<<>>), RawList(<<"Python", "React">>),
     RawList(<<"React", "Python">>), RawList(<<"Go">>), RawText("Python"), RawNumber}

PlainText == "Build a citizen portal"
TechnicalText == "Build a portal with Python and React"
IngestScripts == {"backend/scripts", "scripts"}

\* description is what the record holds under the key the script reads
\* ("text" for backend/scripts, "description" for scripts)
RawRecords ==
    [script : IngestScripts, id : {IdOf(1)}, title : {"Citizen Portal", " "},
     description : {PlainText, TechnicalText, ""}, technology_stack : RawTechSamples]

\* _extract_tech_stack_from_text (backend/scripts 188-220): the keywords of
\* the fixed table that occur in the lower-cased text, each title-cased
TechMentions(text) ==
    IF text = TechnicalText THEN {"Python", "React"} ELSE {}

\* the hard and easy keywords of _determine_difficulty_level occurring in the text
HardScore(text) == 0
EasyScore(text) == 0

\* _determine_difficulty_level (backend/scripts 222-249)
determine_difficulty_level(description, tech_stack) ==
    IF description = "" THEN "Medium"
    ELSE IF HardScore(description) >= 2 \/ Len(tech_stack) >= 5 THEN "Hard"
    ELSE IF EasyScore(description) >= 1 \/ Len(tech_stack) <= 2 THEN "Easy"
    ELSE "Medium"

\* the ProblemStatement of the scripts; created_at is set by model_post_init
IngestedProblem(id, title, description, tech_stack, difficulty) ==
    [id |-> id, title |-> title, organization |-> "Unknown", category |-> "General",
     description |-> description, technology_stack |-> tech_stack,
     difficulty_level |-> difficulty, created_at |-> "2024-01-01T00:00:00"]

\* validate_problem_statement of backend/scripts (140-186): the technology
\* stack is what the text scan finds, in the order `order`; <<>> is None
validate_backend(raw, order) ==
    LET title == Strip(raw.title)
        description == Strip(raw.description)
    IN  IF title = "" \/ description = "" THEN <<>>
        ELSE <<IngestedProblem(raw.id, title, description, order,
                               determine_difficulty_level(description, order))>>

\* validate_problem_statement of scripts (121-153)
validate_scripts(raw) ==
    LET title == Strip(raw.title)
        description == Strip(raw.description)
        tech == IF raw.technology_stack.t \in {"list", "str"}
                THEN raw.technology_stack.v ELSE <<>>
    IN  IF title = "" \/ description = "" THEN <<>>
        ELSE <<IngestedProblem(raw.id, title, description, tech, "Medium")>>

\* store_in_chromadb: the metadata and the document stored for a problem
StoredRecord(problem) ==
    [id |-> problem.id,
     metadata |-> [present |-> TRUE,
                   title |-> Str(problem.title),
                   organization |-> Str(problem.organization),
                   category |-> Str(problem.category),
                   description |-> Absent,
                   technology_stack |-> TechText(JsonDumps(problem.technology_stack)),
                   difficulty_level |-> Str(problem.difficulty_level),
                   created_at |-> Str(problem.created_at)],
     document |-> Document(<<problem.title, problem.description,
                             "Tech Stack: " \o Join(problem.technology_stack, " ")>>),
     distance |-> 0]

NotIngested == [done |-> FALSE, records |-> <<>>]
NotFetched == Ret("none", "none", <<>>, NoProblem, NoStats)

\* validate_problem_statement then store_in_chromadb, for the one raw record
Ingest ==
    /\ ~store_record.done
    /\ \E order \in Orders(TechMentions(Strip(raw_record.description))) :
        LET valid == IF raw_record.script = "backend/scripts"
                     THEN validate_backend(raw_record, order)
                     ELSE validate_scripts(raw_record)
        IN  store_record' = [done |-> TRUE,
                             records |-> [i \in 1..Len(valid) |-> StoredRecord(valid[i])]]
    /\ UNCHANGED <<raw_record, fetched_problem, search_vars, mapper_vars, dash_vars, github_vars, docgen_vars>>

\* get_problem_by_id on the id of the raw record, the service being initialised
Retrieve ==
    /\ store_record.done
    /\ fetched_problem = NotFetched
    /\ fetched_problem' = get_problem_by_id(raw_record.id, Answer(store_record.records))
    /\ UNCHANGED <<raw_record, store_record, search_vars, mapper_vars, dash_vars, github_vars, docgen_vars>>

IngestNext == Ingest \/ Retrieve

(***************************************************************************)
(* The docgen proxy: _proxy_request (routers/docgen.py, lines 67-93)       *)
(***************************************************************************)
Retries == 2
TransientStatuses == {502, 503, 504, 429}

\* What one client.request gives: a response with its status, whose body
\* is JSON or not, or a transport error (httpx.RequestError: no connection,
\* a timeout after 45 s)
Response(status, json_ok) == [kind |-> "response", status |-> status, json_ok |-> json_ok]
RequestError == [kind |-> "request_error", status |-> 0, json_ok |-> FALSE]
UpstreamStatuses == {400, 404, 422, 429, 500, 502, 503, 504}
UpstreamOutcomes ==
    {Response(200, TRUE), Response(200, FALSE), RequestError}
    \cup {Response(st, j) : st \in UpstreamStatuses, j \in BOOLEAN}

\* the same with every error status retried
retry_status_any(status, attempt) == attempt < Retries
\* line 78
retry_status(status, attempt) == status \in TransientStatuses /\ attempt < Retries

\* line 88
retry_request_error(attempt) == attempt < Retries

\* how the call ended: kind is "json" for a returned body, else the
\* exception raised
ProxyEnd(kind, status) == [kind |-> kind, status |-> status]
NotEnded == ProxyEnd("none", 0)

ProxyState(pc, attempt, outcomes, slept, end) ==
    [pc |-> pc, attempt |-> attempt, outcomes |-> outcomes, slept |-> slept, end |-> end]
NoProxyCall == ProxyState("idle", 0, <<>>, <<>>, NotEnded)

\* line 67: a call starts; the loop is at attempt 0
ProxyRequest ==
    /\ proxy.pc \in {"idle", "returned", "raised"}
    /\ proxy' = ProxyState("requesting", 0, <<>>, <<>>, NotEnded)
    /\ UNCHANGED <<search_vars, mapper_vars, dash_vars, ingest_vars, github_vars>>

\* lines 72-90: one pass of the loop body, up to the sleep or the end of
\* the call.  The backoff is in tenths of a second
ProxyAttempt ==
    /\ proxy.pc = "requesting"
    /\ \E outcome \in UpstreamOutcomes :
        LET outcomes == Append(proxy.outcomes, outcome)
            is_success == outcome.kind = "response" /\ outcome.status = 200
            retry == IF outcome.kind = "request_error"
                     THEN retry_request_error(proxy.attempt)
                     ELSE retry_status(outcome.status, proxy.attempt)
        IN  proxy' =
              IF is_success
              THEN IF outcome.json_ok
                   THEN ProxyState("returned", proxy.attempt, outcomes, proxy.slept,
                                   ProxyEnd("json", 200))
                   ELSE ProxyState("raised", proxy.attempt, outcomes, proxy.slept,
                                   ProxyEnd("JSONDecodeError", 0))
              ELSE IF retry
              THEN ProxyState("sleeping", proxy.attempt, outcomes,
                              Append(proxy.slept, 5 * (proxy.attempt + 1)), NotEnded)
              ELSE ProxyState("raised", proxy.attempt, outcomes, proxy.slept,
                              ProxyEnd("HTTPException",
                                       IF outcome.kind = "request_error" THEN 503
                                       ELSE outcome.status))
    /\ UNCHANGED <<search_vars, mapper_vars, dash_vars, ingest_vars, github_vars>>

\* lines 79-80 and 89-90: the sleep is over, the loop goes on
ProxyWake ==
    /\ proxy.pc = "sleeping"
    /\ proxy' = [proxy EXCEPT !.pc = "requesting", !.attempt = @ + 1]
    /\ UNCHANGED <<search_vars, mapper_vars, dash_vars, ingest_vars, github_vars>>

ProxyNext == ProxyRequest \/ ProxyAttempt \/ ProxyWake

(***************************************************************************)
(* Specifications                                                          *)
(***************************************************************************)
InitSearch ==
    /\ sentence_model = FALSE
    /\ chroma_client = FALSE
    /\ collection = FALSE
    /\ search_initialized = FALSE
    /\ search_call = [op |-> "none", limit |-> 0, env |-> ReadyEnv,
                      model_loads |-> 0, connections |-> 0, reloaded |-> FALSE,
                      n_results |-> NoQuery, answer |-> NoAnswer]
    /\ search_ret = Ret("none", "none", <<>>, NoProblem, NoStats)
    /\ tasks = [i \in 1..MaxCallers |-> NewTask]
    /\ init_totals = [model_loads |-> 0, connections |-> 0, failed |-> 0]
    /\ proxy = NoProxyCall

InitDash ==
    /\ dash_initialized = FALSE
    /\ dash_client = FALSE
    /\ dash_collection = FALSE
    /\ cache = <<>>
    /\ cache_timestamp = NoTime
    /\ now = 0
    /\ next_object = 1
    /\ dash_call = DashCall("none", FALSE, "ready", FALSE, NoAnswer)
    /\ dash_ret = DashRet("none", "none", NoSnapshot)
    /\ dash_hist = NoHistory
    /\ scan = NoScan

IdleMapper ==
    /\ mapper_in = [doc_id |-> "sih_001", metadata |-> FullMetadata,
                    document |-> ThreeLineDocument, distance |-> 0]
    /\ mapper_out = NotConverted

IdleIngest ==
    /\ raw_record = [script |-> "scripts", id |-> IdOf(1), title |-> "Citizen Portal",
                     description |-> PlainText, technology_stack |-> RawAbsent]
    /\ store_record = NotIngested
    /\ fetched_problem = NotFetched

(***************************************************************************)
(* GitHubService (github_service.py): the profile document                 *)
(***************************************************************************)
\* str.split(sep) and str.strip()
RECURSIVE str_split(_, _)
str_split(s, sep) ==
    LET n == Len(sep)
        At(i) == SubSeq(s, i, i + n - 1) = sep
    IN  IF \E i \in 1..(Len(s) - n + 1) : At(i)
        THEN LET first == CHOOSE i \in 1..(Len(s) - n + 1) :
                              At(i) /\ \A j \in 1..(i - 1) : ~At(j)
             IN  <<SubSeq(s, 1, first - 1)>>
                 \o str_split(SubSeq(s, first + n, Len(s)), sep)
        ELSE <<s>>

Whitespace == {" ", "\n", "\t"}
RECURSIVE str_strip(_)
str_strip(s) ==
    IF s = "" THEN ""
    ELSE IF SubSeq(s, 1, 1) \in Whitespace THEN str_strip(SubSeq(s, 2, Len(s)))
    ELSE IF SubSeq(s, Len(s), Len(s)) \in Whitespace
    THEN str_strip(SubSeq(s, 1, Len(s) - 1))
    ELSE s

\* items[:n]
Take(items, n) == SubSeq(items, 1, Min(n, Len(items)))

RECURSIVE Flatten(_)
Flatten(lists) == IF lists = <<>> THEN <<>> ELSE lists[1] \o Flatten(Tail(lists))

Range(items) == {items[i] : i \in 1..Len(items)}

\* models.Repository; a description or README that is None is the empty
\* string here: the code tests both by truth value only
Repository(name, description, topics, readme_content) ==
    [name |-> name, description |-> description, topics |-> topics,
     readme_content |-> readme_content]

MaxRepos == 2

RepoSamples ==
    {Repository("traffic-ai", "AI traffic management", <<"machine-learning", "python">>,
                "Traffic AI predicts congestion in cities. It uses Python and React for dashboards. MIT"),
     Repository("notes-app", "Offline notes", <<"python">>,
                "Notes App keeps every note on the device.\nSync is done over the local network only. "),
     Repository("guide", "", <<>>,
                "Guide. A short guide to the command line tools"),
     Repository("scratch", "", <<>>, "Work in progress. Nothing yet."),
     Repository("dotfiles", "", <<>>, "")}

\* what _analyze_tech_stack can leave: nothing, a few names, more than ten
TechStacks ==
    {<<>>, <<"python", "react">>,
     <<"python", "react", "docker", "go", "rust", "java", "redis", "aws", "css", "html",
       "flask">>}

GitHubProfile(username, repositories, tech_stack) ==
    [username |-> username, repositories |-> repositories, tech_stack |-> tech_stack]

Profiles ==
    {GitHubProfile("octocat", repos, tech) :
        repos \in UNION {[1..k -> RepoSamples] : k \in 0..MaxRepos},
        tech \in TechStacks}

AllTopics(profile) ==
    Flatten([i \in 1..Len(profile.repositories) |-> profile.repositories[i].topics])

\* lines 268-275: the sentences kept from one README
CleanSentences(readme_content) ==
    LET sentences == Take(str_split(readme_content, "."), 2)
        stripped == [i \in 1..Len(sentences) |-> str_strip(sentences[i])]
    IN  SelectSeq(stripped, LAMBDA t : Len(t) > 20)

ReadmeSnippets(repositories) ==
    LET top == Take(repositories, 5)
    IN  Flatten([i \in 1..Len(top) |->
                    IF top[i].readme_content # ""
                    THEN CleanSentences(top[i].readme_content) ELSE <<>>])

RepoDescriptions(repositories) ==
    LET top == Take(repositories, 10)
        described == SelectSeq(top, LAMBDA r : r.description # "")
    IN  [i \in 1..Len(described) |-> described[i].name \o ": " \o described[i].description]

\* the same with every label emitted, whether or not its section has content
generate_github_dna_all_labels(profile, topic_order) ==
    Join(<<"Technologies: " \o Join(Take(profile.tech_stack, 10), ", "),
           "Projects: " \o Join(RepoDescriptions(profile.repositories), "; "),
           "Interests: " \o Join(Take(topic_order, 15), ", "),
           "Project details: "
               \o Join(Take(ReadmeSnippets(profile.repositories), 3), ". ")>>, " | ")
\* generate_github_dna (233-280); topic_order is the order in which
\* list(set(all_topics)) gives the topics
generate_github_dna(profile, topic_order) ==
    LET repo_descriptions == RepoDescriptions(profile.repositories)
        readme_snippets == ReadmeSnippets(profile.repositories)
        dna_parts ==
            (IF profile.tech_stack # <<>>
             THEN <<"Technologies: " \o Join(Take(profile.tech_stack, 10), ", ")>>
             ELSE <<>>)
            \o (IF repo_descriptions # <<>>
                THEN <<"Projects: " \o Join(repo_descriptions, "; ")>> ELSE <<>>)
            \o (IF AllTopics(profile) # <<>>
                THEN <<"Interests: " \o Join(Take(topic_order, 15), ", ")>> ELSE <<>>)
            \o (IF readme_snippets # <<>>
                THEN <<"Project details: " \o Join(Take(readme_snippets, 3), ". ")>>
                ELSE <<>>)
    IN  Join(dna_parts, " | ")

DnaInputs ==
    UNION {{[profile |-> p, topic_order |-> order] : order \in Orders(Range(AllTopics(p)))} :
              p \in Profiles}

NoProfile == GitHubProfile("", <<>>, <<>>)
NoDna == [generated |-> FALSE, text |-> ""]

GenerateDna ==
    /\ ~dna_out.generated
    /\ dna_out' = [generated |-> TRUE,
                   text |-> generate_github_dna(dna_in.profile, dna_in.topic_order)]
    /\ UNCHANGED <<dna_in, rec_call, rec_ret, profile_vars, search_vars, mapper_vars,
                   dash_vars, ingest_vars, docgen_vars>>

\* a further run of generate_github_dna on the same profile: list(set(...))
\* (line 264) gives the topics in an order of its own
GenerateDnaAgain ==
    /\ dna_out.generated
    /\ \E order \in Orders(Range(AllTopics(dna_in.profile))) :
        /\ dna_in' = [dna_in EXCEPT !.topic_order = order]
        /\ dna_out' = [generated |-> TRUE,
                       text |-> generate_github_dna(dna_in.profile, order)]
    /\ UNCHANGED <<rec_call, rec_ret, profile_vars, search_vars, mapper_vars, dash_vars,
                   ingest_vars, docgen_vars>>

(***************************************************************************)
(* GitHubService.cache: _is_cached (312-318), _cache_data (320-335)        *)
(***************************************************************************)
GithubCacheTtl == 60        \* minutes: timedelta(hours=1), line 25
CacheLimit == 100           \* line 328
EvictCount == 20            \* line 334
MaxGithubTime == 2          \* ticks of the clock explored
GithubMinutesPerTick == 30

Minutes(t) == t * GithubMinutesPerTick

CacheEntry(key, data, timestamp) == [key |-> key, data |-> data, timestamp |-> timestamp]
CacheKey(username) == "profile_" \o username
HasKey(c, key) == \E i \in 1..Len(c) : c[i].key = key
EntryOf(c, key) == c[CHOOSE i \in 1..Len(c) : c[i].key = key]

\* the same with the comparison turned round
is_cached_expired_only(c, key, t) ==
    HasKey(c, key) /\ Minutes(t) - Minutes(EntryOf(c, key).timestamp) >= GithubCacheTtl
\* _is_cached
is_cached(c, key, t) ==
    HasKey(c, key) /\ Minutes(t) - Minutes(EntryOf(c, key).timestamp) < GithubCacheTtl

\* the place of entry i in sorted(items, key=timestamp): the sort is stable
OldestRank(c, i) ==
    Cardinality({j \in 1..Len(c) :
                    \/ c[j].timestamp < c[i].timestamp
                    \/ c[j].timestamp = c[i].timestamp /\ j < i})

KeepIndices(c, keep(_)) == SelectSeq([i \in 1..Len(c) |-> i], keep)

\* the same without the cleanup
cache_data_unbounded(c, key, data, t) ==
    IF HasKey(c, key)
    THEN [i \in 1..Len(c) |-> IF c[i].key = key THEN CacheEntry(key, data, t) ELSE c[i]]
    ELSE Append(c, CacheEntry(key, data, t))
\* _cache_data: a dict keeps a key that is assigned again at its place
cache_data(c, key, data, t) ==
    LET put == IF HasKey(c, key)
               THEN [i \in 1..Len(c) |->
                        IF c[i].key = key THEN CacheEntry(key, data, t) ELSE c[i]]
               ELSE Append(c, CacheEntry(key, data, t))
    IN  IF Len(put) > CacheLimit
        THEN LET kept == KeepIndices(put, LAMBDA i : OldestRank(put, i) >= EvictCount)
             IN  [k \in 1..Len(kept) |-> put[kept[k]]]
        ELSE put

\* get_github_profile (27-122): the cached profile, or the one fetched from
\* GitHub, which is then cached; answer is what GitHub gives when asked
ProfileRet(kind, status, profile) == [kind |-> kind, status |-> status, profile |-> profile]
get_github_profile(c, username, answer, t) ==
    IF is_cached(c, CacheKey(username), t)
    THEN [ret |-> ProfileRet("ok", 200, <<EntryOf(c, CacheKey(username)).data>>),
          cache |-> c, fetched |-> FALSE]
    ELSE IF answer.raises
    THEN [ret |-> ProfileRet("HTTPException", answer.status, <<>>),
          cache |-> c, fetched |-> TRUE]
    ELSE [ret |-> ProfileRet("ok", 200, <<answer.profile>>),
          cache |-> cache_data(c, CacheKey(username), answer.profile, t),
          fetched |-> TRUE]

\* get_github_profile (27-122) as get_recommendations sees it: a profile,
\* or the HTTPException of a user not found (404), a rate limit (429), a
\* GitHub error (502) or a timeout (504)
\* (here the profiles of users with no repository or one)
SingleRepoInputs == {d \in DnaInputs : Len(d.profile.repositories) <= 1}

ProfileAnswers ==
    {[raises |-> TRUE, status |-> st, profile |-> NoProfile] : st \in {404, 429, 502, 504}}
    \cup {[raises |-> FALSE, status |-> 200, profile |-> d.profile] : d \in SingleRepoInputs}

\* GitHub is not asked when the profile is served from the cache
NoGithubAnswer == [raises |-> FALSE, status |-> 0, profile |-> NoProfile]
AnswersFor(c, username, t, answers) ==
    IF is_cached(c, CacheKey(username), t) THEN {NoGithubAnswer} ELSE answers

ProfileCall(username, fetched, answer) ==
    [op |-> "get_github_profile", username |-> username, fetched |-> fetched,
     answer |-> answer]

\* The users whose profiles are asked for: one cached long ago and two others
FillerUser(i) == "user" \o ToString(i)
CacheUsers == {FillerUser(1), "octocat", "hubot"}
UserProfiles(username) ==
    {GitHubProfile(username, <<>>, <<>>), GitHubProfile(username, <<>>, <<"python", "react">>)}
UserAnswers(username) ==
    {[raises |-> TRUE, status |-> 404, profile |-> NoProfile]}
    \cup {[raises |-> FALSE, status |-> 200, profile |-> p] : p \in UserProfiles(username)}

\* a cache of k profiles fetched a moment ago
Prefilled(k) ==
    [i \in 1..k |-> CacheEntry(CacheKey(FillerUser(i)),
                               GitHubProfile(FillerUser(i), <<>>, <<>>), 0)]

GetGithubProfile ==
    /\ \E username \in CacheUsers :
       \E answer \in AnswersFor(profile_cache, username, github_now, UserAnswers(username)) :
        LET g == get_github_profile(profile_cache, username, answer, github_now)
        IN  /\ profile_cache' = g.cache
            /\ profile_call' = ProfileCall(username, g.fetched, answer)
            /\ profile_ret' = g.ret
    /\ UNCHANGED <<github_now, dna_in, dna_out, rec_call, rec_ret, search_vars, mapper_vars,
                   dash_vars, ingest_vars, docgen_vars>>

GithubTick ==
    /\ github_now < MaxGithubTime
    /\ github_now' = github_now + 1
    /\ UNCHANGED <<profile_cache, profile_call, profile_ret, dna_in, dna_out, rec_call,
                   rec_ret, search_vars, mapper_vars, dash_vars, ingest_vars, docgen_vars>>

\* what the store answers to the query of a recommendation: an exception,
\* nothing, one neighbour, or the twenty asked for
RecommendationAnswers(n) ==
    {StoreRaises, NoAnswer}
    \cup {Answer(h) : h \in HitLists(1)}
    \cup {Answer(FillerHits(Min(n, BigStore)))}

RecommendationLimit == 20

RecCall(answer, github_dna, searches) ==
    [op |-> "get_recommendations", profile |-> answer, github_dna |-> github_dna,
     searches |-> searches]
RecRet(kind, status, results) == [kind |-> kind, status |-> status, results |-> results]

\* the same without the test of the document
insufficient_unchecked(github_dna) == FALSE
\* line 298
insufficient(github_dna) == str_strip(github_dna) = ""

\* lines 308-310: what get_recommendations makes of the outcome of search
recommendations(s) ==
    IF s.kind = "ok" THEN RecRet("ok", 200, s.results)
    ELSE RecRet(s.kind, 500, <<>>)

\* get_recommendations (282-310), with the search it delegates to
GetRecommendations ==
    /\ \E answer \in AnswersFor(profile_cache, "octocat", github_now, ProfileAnswers) :
        LET g == get_github_profile(profile_cache, "octocat", answer, github_now)
        IN  /\ profile_cache' = g.cache
            /\ profile_call' = ProfileCall("octocat", g.fetched, answer)
            /\ profile_ret' = g.ret
            /\ IF g.ret.kind # "ok"
               THEN /\ rec_call' = RecCall(g.ret, "", <<>>)
                    /\ rec_ret' = RecRet("HTTPException", g.ret.status, <<>>)
                    /\ UNCHANGED search_vars
               ELSE \E order \in Orders(Range(AllTopics(g.ret.profile[1]))) :
                    LET github_dna == generate_github_dna(g.ret.profile[1], order)
                    IN  IF insufficient(github_dna)
                        THEN /\ rec_call' = RecCall(g.ret, github_dna, <<>>)
                             /\ rec_ret' = RecRet("HTTPException", 400, <<>>)
                             /\ UNCHANGED search_vars
                        ELSE /\ rec_call' = RecCall(g.ret, github_dna,
                                    <<[query |-> github_dna, limit |-> RecommendationLimit]>>)
                             /\ \E env \in EnvsFor(CurrentFields) :
                                 LET o == initialize(CurrentFields, env)
                                 IN  /\ SetFields(o)
                                     /\ IF o.raised
                                        THEN /\ search_call' =
                                                  Call("search", RecommendationLimit, env, o,
                                                       NoQuery, NoAnswer)
                                             /\ search_ret' =
                                                  Ret("SearchServiceError", "initialize",
                                                      <<>>, NoProblem, NoStats)
                                        ELSE \E found \in RecommendationAnswers(
                                                            NResults(RecommendationLimit)) :
                                             /\ search_call' =
                                                  Call("search", RecommendationLimit, env, o,
                                                       NResults(RecommendationLimit), found)
                                             /\ search_ret' = search(RecommendationLimit, found)
                             /\ rec_ret' = recommendations(search_ret')
    /\ UNCHANGED <<github_now, dna_in, dna_out, conc_vars, mapper_vars, dash_vars, ingest_vars, docgen_vars>>

IdleProfiles ==
    /\ profile_cache = <<>>
    /\ github_now = 0
    /\ profile_call = [op |-> "none"]
    /\ profile_ret = ProfileRet("none", 0, <<>>)

IdleGithub ==
    /\ dna_in = [profile |-> NoProfile, topic_order |-> <<>>]
    /\ dna_out = NoDna
    /\ rec_call = [op |-> "none"]
    /\ rec_ret = [kind |-> "none"]
    /\ IdleProfiles

Init == InitSearch /\ InitDash /\ IdleMapper /\ IdleIngest /\ IdleGithub

InitMapper ==
    /\ InitSearch
    /\ InitDash
    /\ IdleIngest
    /\ IdleGithub
    /\ mapper_in \in MapperInputs
    /\ mapper_out = NotConverted

InitDna ==
    /\ InitSearch
    /\ InitDash
    /\ IdleMapper
    /\ IdleIngest
    /\ dna_in \in DnaInputs
    /\ dna_out = NoDna
    /\ rec_call = [op |-> "none"]
    /\ rec_ret = [kind |-> "none"]
    /\ IdleProfiles

InitProfiles ==
    /\ InitSearch
    /\ InitDash
    /\ IdleMapper
    /\ IdleIngest
    /\ dna_in = [profile |-> NoProfile, topic_order |-> <<>>]
    /\ dna_out = NoDna
    /\ rec_call = [op |-> "none"]
    /\ rec_ret = [kind |-> "none"]
    /\ profile_cache \in {Prefilled(k) : k \in {0, CacheLimit - 1, CacheLimit}}
    /\ github_now = 0
    /\ profile_call = [op |-> "none"]
    /\ profile_ret = ProfileRet("none", 0, <<>>)

InitIngest ==
    /\ InitSearch
    /\ InitDash
    /\ IdleMapper
    /\ IdleGithub
    /\ raw_record \in RawRecords
    /\ store_record = NotIngested
    /\ fetched_problem = NotFetched

GithubNext ==
    \/ GenerateDna
    \/ GenerateDnaAgain
    \/ GetGithubProfile
    \/ GithubTick
    \/ GetRecommendations

Next ==
    \/ SearchNext
    \/ DashNext
    \/ GetCategoryBreakdown
    \/ DashHealthCheck
    \/ ConvertCall
    \/ IngestNext
    \/ GithubNext

\* Both services and the mapper side by side
Spec == Init /\ [][Next]_vars

\* SearchService under any sequence of its operations
SpecSearch == Init /\ [][SearchNext]_vars
\* DashboardService under any sequence of its operations and the passing of time
SpecDash == Init /\ [][DashNext]_vars
\* The result mapper applied to each input
SpecMapper == InitMapper /\ [][ConvertCall]_vars
\* Callers started together on a SearchService not yet initialized
SpecCallers == Init /\ [][CallersNext]_vars
\* One raw record ingested by either script, then read back by id
SpecIngest == InitIngest /\ [][IngestNext]_vars

\* generate_github_dna applied to each profile
SpecDna == InitDna /\ [][GenerateDna]_vars

\* generate_github_dna applied to each profile, run after run
DnaRunsNext == GenerateDna \/ GenerateDnaAgain
SpecDnaRuns == InitDna /\ [][DnaRunsNext]_vars

\* The profile cache: profiles asked for as time passes
ProfileNext == GetGithubProfile \/ GithubTick
SpecProfiles == InitProfiles /\ [][ProfileNext]_vars

\* Recommendations asked for one user after another
SpecRecommend == Init /\ [][GetRecommendations]_vars

\* DashboardService under every operation that reads or writes its cache
CachedGetDashboardStats == GetDashboardStatsOn(SmallCatalogAnswers)
CachedGetCategoryBreakdown == GetCategoryBreakdownOn(SmallCatalogAnswers)
CachedGetTechnologyTrends == GetTechnologyTrendsOn(SmallCatalogAnswers)
CachedDashHealthCheck == DashHealthCheckOn(SmallCatalogAnswers)
DashCacheNext ==
    \/ Tick
    \/ CachedGetDashboardStats
    \/ ClearCache
    \/ CachedGetCategoryBreakdown
    \/ CachedGetTechnologyTrends
    \/ CachedDashHealthCheck
SpecDashCache == Init /\ [][DashCacheNext]_vars

\* _proxy_request called again and again, the docgen service answering anything
SpecProxy == Init /\ [][ProxyNext]_vars

\* _fetch_all_problem_data applied to catalogs of every size
SpecFetch == Init /\ [][FetchAllProblemData]_vars

\* The category breakdown, asked for again and again as time passes
BreakdownNext == GetCategoryBreakdown \/ Tick
SpecBreakdown == Init /\ [][BreakdownNext]_vars

\* The two health checks.  The search service and the dashboard service are
\* separate objects that share no field, so a behaviour checks one of them
\* repeatedly: the checks of the other would only interleave with it
SearchHealthStep == dash_call.op = "none" /\ HealthCheck
DashHealthStep == search_call.op = "none" /\ DashHealthCheck
HealthNext == SearchHealthStep \/ DashHealthStep
SpecHealth == Init /\ [][HealthNext]_vars

(***************************************************************************)
(* Properties                                                              *)
(***************************************************************************)
Elapsed(since) == (now - since) * MinutesPerTick

\* a step that is a get_dashboard_stats call (the only steps that leave the
\* clock alone and end with that call as the last one)
GetStatsStep == dash_call'.op = "get_dashboard_stats" /\ now' = now
ClearCacheStep == dash_call'.op = "clear_cache"

\* C1 (as stated): a get_dashboard_stats(force_refresh=false) call made less
\* than 15 minutes after a prior successful get_dashboard_stats call, with no
\* clear_cache in between, returns the very object that prior call returned
\* and performs no catalog fetch.  The prior calls considered are those whose
\* object is the one held in the cache (they stored it or were served it),
\* which leaves aside the calls that returned without storing (C4).
C1_SameObjectAfterPriorCall ==
    [][(/\ GetStatsStep
        /\ ~dash_call'.force_refresh
        /\ dash_hist.ok_time # NoTime
        /\ ~dash_hist.cleared
        /\ dash_hist.ok_object = dash_hist.stored_object
        /\ Elapsed(dash_hist.ok_time) < CacheTtl)
       => (/\ dash_ret'.kind = "ok"
           /\ dash_ret'.stats[1].object = dash_hist.ok_object
           /\ ~dash_call'.fetched)]_vars

\* C1 (amended): a get_dashboard_stats(force_refresh=false) call made less
\* than 15 minutes after the cache timestamp, that is after the last
\* recomputation that stored a snapshot, with no clear_cache in between,
\* returns the very object that recomputation stored and returned, performs
\* no catalog fetch and leaves the cache as it was.
C1_CacheHitWithinTtl ==
    [][(/\ GetStatsStep
        /\ ~dash_call'.force_refresh
        /\ cache_timestamp # NoTime
        /\ Elapsed(cache_timestamp) < CacheTtl)
       => (/\ dash_ret'.kind = "ok"
           /\ dash_hist.stored_object # 0
           /\ dash_ret'.stats[1].object = dash_hist.stored_object
           /\ ~dash_call'.fetched
           /\ cache' = cache
           /\ cache_timestamp' = cache_timestamp)]_vars

\* a hit served ten minutes after the snapshot was stored
C1_Witness ==
    /\ dash_call.op = "get_dashboard_stats"
    /\ dash_ret.stage = "cached"
    /\ cache_timestamp # NoTime
    /\ Elapsed(cache_timestamp) = 2 * MinutesPerTick
    /\ dash_hist.ok_time = now

\* C2: a get_dashboard_stats call that gets past initialisation with
\* force_refresh=true, or 15 minutes or more after the cache timestamp, scans
\* the catalog; when it returns, what it returns is never the cached object
\* but a new object computed from the catalog just scanned.
C2_RefreshRecomputes ==
    [][(/\ GetStatsStep
        /\ dash_ret'.stage # "initialize"
        /\ \/ dash_call'.force_refresh
           \/ cache_timestamp # NoTime /\ Elapsed(cache_timestamp) >= CacheTtl)
       => (/\ dash_call'.fetched
           /\ dash_ret'.stage # "cached"
           /\ dash_ret'.kind = "ok" =>
                /\ dash_ret'.stats # cache
                /\ dash_ret'.stats[1] =
                     generate_dashboard_stats(dash_call'.answer.hits, next_object)
                /\ \A i \in 1..Len(cache) : cache[i].object # dash_ret'.stats[1].object)]_vars

\* a forced refresh, made while a valid snapshot was cached, computed a new one
C2_Witness ==
    /\ dash_call.op = "get_dashboard_stats"
    /\ dash_call.force_refresh
    /\ dash_ret.stage = "computed"
    /\ dash_ret.stats[1].object = 2
    /\ dash_hist.discarded = 0
    /\ cache_timestamp = 1
    /\ now = 1

\* C3: clear_cache leaves no snapshot and no timestamp, and every
\* get_dashboard_stats call made after it, until one succeeds, scans the
\* catalog (when it gets past initialisation), whatever force_refresh is and
\* however recently the cache was filled.
C3_ClearForcesRecompute ==
    [][/\ ClearCacheStep => (cache' = <<>> /\ cache_timestamp' = NoTime)
       /\ (GetStatsStep /\ dash_hist.cleared /\ dash_ret'.stage # "initialize")
            => (dash_call'.fetched /\ dash_ret'.stage # "cached")]_vars

\* a snapshot stored at time 0 was cleared and the next call, without
\* force_refresh and still at time 0, computed a new one
C3_Witness ==
    /\ dash_call.op = "get_dashboard_stats"
    /\ ~dash_call.force_refresh
    /\ dash_hist.after_clear
    /\ dash_hist.discarded # 0
    /\ dash_ret.stage = "computed"
    /\ now = 0

\* C4: every get_dashboard_stats call that scans the catalog and returns has
\* stored the snapshot it returns, with a fresh timestamp, whatever the
\* catalog holds (nothing included).
C4_RecomputeStoresResult ==
    [][(GetStatsStep /\ dash_call'.fetched /\ dash_ret'.kind = "ok")
       => (cache' = dash_ret'.stats /\ cache_timestamp' = now')]_vars

\* C5: once initialize() has succeeded the service stays initialised and no
\* operation loads the embedding model or builds a store client again.
C5_InitializeIdempotent ==
    [][search_initialized
       => (/\ search_initialized'
           /\ search_call'.model_loads = 0
           /\ search_call'.connections = 0
           /\ sentence_model' /\ chroma_client' /\ collection')]_vars

\* initialize() called on the initialised service did nothing
C5_Witness ==
    /\ search_initialized
    /\ search_call.op = "initialize"
    /\ search_call.model_loads = 0
    /\ search_call.connections = 0
    /\ search_ret.kind = "ok"

StoreReachable(env) == env.store \notin {"unreachable", "heartbeat_fails"}
InitError(op) == IF op = "health_check" THEN "unhealthy" ELSE "SearchServiceError"

\* the last operation failed in initialize() because the store was
\* unreachable or its heartbeat failed
FailedOnStore ==
    /\ search_ret.stage = "initialize"
    /\ search_call.env.model_ok
    /\ ~StoreReachable(search_call.env)

\* C6 (as stated): an initialisation that fails because the store is
\* unreachable or its heartbeat fails gives SearchServiceError and leaves the
\* service uninitialised, and the next operation initialises it if the store
\* is reachable by then (the embedding model loading again as it did in the
\* failed attempt).
C6_RetrySucceedsWhenReachable ==
    [][/\ FailedOnStore' =>
            (~search_initialized' /\ search_ret'.kind = InitError(search_call'.op))
       /\ (FailedOnStore /\ search_call'.env.model_ok /\ StoreReachable(search_call'.env))
            => (search_call'.model_loads = 1 /\ search_initialized')]_vars

\* C6 (amended): every operation on an uninitialised service attempts the
\* initialisation again, loading the model and connecting anew; the attempt
\* succeeds if the model loads, the store is reachable, its heartbeat answers
\* and the collection exists, and otherwise it gives SearchServiceError
\* (an unhealthy status out of health_check) and leaves the service
\* uninitialised.
C6_RetryUntilReady ==
    [][~search_initialized
       => (/\ search_call'.model_loads = 1
           /\ IF EnvReady(search_call'.env)
              THEN search_initialized' /\ search_ret'.stage # "initialize"
              ELSE /\ ~search_initialized'
                   /\ search_ret'.stage = "initialize"
                   /\ search_ret'.kind = InitError(search_call'.op))]_vars

\* a search initialised the service after an earlier attempt had failed
\* past the model load
C6_Witness ==
    /\ search_call.op = "search"
    /\ search_call.reloaded
    /\ search_call.connections = 1
    /\ search_initialized
    /\ search_ret.kind = "ok"

\* C7: search(query, limit) asks the store for min(limit, 100) neighbours
\* and returns at most min(limit, 100) results.
C7_ResultsCapped ==
    search_call.op = "search" =>
        /\ search_ret.stage # "initialize" =>
                search_call.n_results = Min(search_call.limit, MaxResults)
        /\ search_ret.kind = "ok" =>
                Len(search_ret.results) <= Min(search_call.limit, MaxResults)

\* a search with limit 101 on a store of more than 100 records returned 100 results
C7_Witness ==
    /\ search_call.op = "search"
    /\ search_call.limit = MaxResults + 1
    /\ search_ret.kind = "ok"
    /\ Len(search_ret.results) = MaxResults

\* C8: the list search() returns keeps the hits in the order the store gave
\* them (ascending distance) and its similarity scores never increase,
\* whatever the metadata of the hits.
C8_ResultsRanked ==
    (search_call.op = "search" /\ search_ret.kind = "ok" /\ Ascending(
        [i \in 1..Len(search_call.answer.hits) |-> search_call.answer.hits[i].distance]))
    => /\ Len(search_ret.results) = Len(search_call.answer.hits)
       /\ \A i \in 1..Len(search_ret.results) :
            search_ret.results[i].problem.id = search_call.answer.hits[i].id
       /\ \A i \in 1..(Len(search_ret.results) - 1) :
            search_ret.results[i].similarity_score
                >= search_ret.results[i + 1].similarity_score

\* C9: every SearchResult the mapper produces has a score in [0, 1], equal
\* to max(0, 1 - distance) for every distance in [0, 2].
C9_ScoreFromDistance ==
    (mapper_out # NotConverted /\ ~mapper_out.raised)
    => /\ mapper_out.result[1].similarity_score \in 0..Scale
       /\ mapper_in.distance \in 0..(2 * Scale) =>
            mapper_out.result[1].similarity_score = Max(0, Scale - mapper_in.distance)

\* C10: whatever records the store answers with, malformed ones included,
\* search() does not raise and returns one result per hit.
C10_MalformedNeverAborts ==
    (search_call.op = "search" /\ search_call.n_results # NoQuery
        /\ ~search_call.answer.raises)
    => /\ search_ret.kind = "ok"
       /\ Len(search_ret.results) = Len(search_call.answer.hits)

\* C11: whenever extraction fails inside the mapper (the try branch raises),
\* for a distance in [0, 2], the mapper returns a fallback record whose
\* description is the raw document text and whose score is max(0, 1 - distance).
C11_FallbackFromDistance ==
    (/\ mapper_out # NotConverted
     /\ mapper_in.distance \in 0..(2 * Scale)
     /\ TryRaises(mapper_in.metadata, mapper_in.document, mapper_in.distance))
    => /\ ~mapper_out.raised
       /\ mapper_out.fallback
       /\ mapper_out.result[1].problem.description =
              (IF DocTruthy(mapper_in.document) THEN mapper_in.document.lines ELSE <<"">>)
       /\ mapper_out.result[1].similarity_score = Max(0, Scale - mapper_in.distance)

\* the stored technology_stack is missing, empty or text that json.loads rejects
TechUnusable(metadata) ==
    /\ metadata.present
    /\ \/ metadata.technology_stack.t = "absent"
       \/ /\ metadata.technology_stack.t = "str"
          /\ ~JsonLoads(metadata.technology_stack.v).ok

\* the same record with a well-formed technology_stack
WithTech(metadata) ==
    [metadata EXCEPT !.technology_stack = TechText(JsonDumps(<<"Python", "React">>))]

\* C12: a record whose technology_stack is absent or unparsable is mapped
\* exactly as the same record with a well-formed technology_stack would be,
\* except that technology_stack is []; in particular, when nothing else is
\* wrong with the record, the mapper does not raise, does not fall back, and
\* gives the similarity max(0, 1 - distance).
C12_BadTechStackGivesEmptyList ==
    (mapper_out # NotConverted /\ TechUnusable(mapper_in.metadata))
    => LET good == convert_metadata_to_problem(mapper_in.doc_id,
                        WithTech(mapper_in.metadata), mapper_in.document, mapper_in.distance)
       IN  /\ mapper_out.raised = good.raised
           /\ mapper_out.fallback = good.fallback
           /\ ~mapper_out.raised =>
                /\ mapper_out.result[1].problem =
                      [good.result[1].problem EXCEPT !.technology_stack = <<>>]
                /\ mapper_out.result[1].similarity_score = good.result[1].similarity_score
           /\ ~TryRaises(WithTech(mapper_in.metadata), mapper_in.document, mapper_in.distance)
                => /\ ~mapper_out.raised
                   /\ ~mapper_out.fallback
                   /\ mapper_out.result[1].similarity_score = Similarity(mapper_in.distance)

\* a record with unparsable technology_stack was mapped, at distance 0.3, to
\* a result with an empty technology_stack and the similarity 0.7
C12_Witness ==
    /\ mapper_in.metadata = BadTechJson
    /\ mapper_in.distance = 3
    /\ ~mapper_out.raised
    /\ mapper_out.result # <<>>
    /\ ~mapper_out.fallback
    /\ mapper_out.result[1].problem.technology_stack = <<>>
    /\ mapper_out.result[1].similarity_score = 7

\* C13: when the store answers an exact-id lookup with no record,
\* get_problem_by_id returns None and does not raise; it returns a
\* ProblemStatement only when the store answered with the record of that id.
C13_MissReturnsNone ==
    search_call.op = "get_problem_by_id" =>
        /\ (search_ret.stage # "initialize" /\ ~search_call.answer.raises
                /\ search_call.answer.hits = <<>>)
            => (search_ret.kind = "ok" /\ search_ret.problem = NoProblem)
        /\ search_ret.problem # NoProblem
            => /\ search_call.answer.hits # <<>>
               /\ search_ret.problem[1].id = search_call.answer.hits[1].id

\* a lookup that the store answered with no record returned None
C13_Witness ==
    /\ search_call.op = "get_problem_by_id"
    /\ search_initialized
    /\ search_ret.stage = "done"
    /\ search_call.answer = NoAnswer
    /\ search_ret.kind = "ok"
    /\ search_ret.problem = NoProblem

\* C14: every record ingested with an explicit technology_stack list of
\* strings comes back from get_problem_by_id with that very list, same
\* elements in the same order.
C14_TechStackRoundTrip ==
    (/\ fetched_problem # NotFetched
     /\ store_record.records # <<>>
     /\ raw_record.technology_stack.t = "list")
    => /\ fetched_problem.kind = "ok"
       /\ fetched_problem.problem # NoProblem
       /\ fetched_problem.problem[1].technology_stack = raw_record.technology_stack.v

\* What failed during the last search-service health check: the
\* initialisation, the smoke-test query or its conversion, or the statistics
SearchHealthFailed ==
    \/ search_call.n_results = NoQuery
    \/ search_call.answer.raises
    \/ MapperRaises(search_call.answer.hits)
    \/ search_call.sample.raises
    \/ \E i \in 1..Len(search_call.sample.hits) : ~search_call.sample.hits[i].metadata.present

\* What failed during the last dashboard health check: the initialisation,
\* the catalog scan or the statistics computation
DashHealthFailed ==
    \/ dash_call.store # "ready"
    \/ /\ dash_call.fetched
       /\ \/ dash_call.answer.raises
          \/ StatsRaise(dash_call.answer.hits)

\* C15: health_check of the search service and of the dashboard service
\* never raises: the outcome is always a status, "healthy" or "unhealthy",
\* and for every failure of initialisation, of the smoke-test query or of the
\* statistics computation it is "unhealthy" with an error description and the
\* current initialized flag.
C15_HealthCheckNeverRaises ==
    /\ search_call.op = "health_check" =>
          /\ search_ret.kind \in {"healthy", "unhealthy"}
          /\ search_ret.initialized = search_initialized
          /\ SearchHealthFailed =>
                search_ret.kind = "unhealthy" /\ search_ret.error # <<>>
    /\ dash_call.op = "health_check" =>
          /\ dash_ret.kind \in {"healthy", "unhealthy"}
          /\ dash_ret.initialized = dash_initialized
          /\ DashHealthFailed =>
                dash_ret.kind = "unhealthy" /\ dash_ret.error # <<>>

\* an initialised dashboard service whose statistics computation failed
\* during the check
C15_Witness ==
    /\ dash_call.op = "health_check"
    /\ dash_initialized
    /\ DashHealthFailed
    /\ dash_ret.kind = "unhealthy"
    /\ dash_ret.stage = "generate"

RECURSIVE SumCounts(_)
SumCounts(counts) ==
    IF counts = <<>> THEN 0 ELSE counts[1].count + SumCounts(Tail(counts))

RECURSIVE SumPercentages(_)
SumPercentages(rows) ==
    IF rows = <<>> THEN 0 ELSE rows[1].percentage + SumPercentages(Tail(rows))

\* C16: in every snapshot get_dashboard_stats produces, each catalog record
\* is counted in exactly one category and none is dropped: the category
\* counts sum to total_problems.
C16_CategoryCountsSumToTotal ==
    (dash_call.op = "get_dashboard_stats" /\ dash_ret.kind = "ok") =>
        SumCounts(dash_ret.stats[1].categories) = dash_ret.stats[1].total_problems

\* C17: the percentages get_category_breakdown returns (tenths of a percent
\* here) sum to 100.0 within 0.05 per category when total_problems > 0, and
\* the answer is {categories: {}, total: 0} when total_problems is 0.
C17_PercentagesSumToHundred ==
    (dash_call.op = "get_category_breakdown" /\ dash_ret.kind = "ok") =>
        LET rows == dash_ret.breakdown.categories
            diff == SumPercentages(rows) - 1000
        IN  IF dash_ret.stats[1].total_problems > 0
            THEN /\ 2 * diff <= Len(rows)
                 /\ -2 * diff <= Len(rows)
                 /\ dash_ret.breakdown.total = dash_ret.stats[1].total_problems
            ELSE dash_ret.breakdown = [categories |-> <<>>, total |-> 0]

StartsWith(s, prefix) ==
    Len(s) >= Len(prefix) /\ SubSeq(s, 1, Len(prefix)) = prefix

Contains(s, part) ==
    \E i \in 1..(Len(s) - Len(part) + 1) : SubSeq(s, i, i + Len(part) - 1) = part

SectionLabels == <<"Technologies", "Projects", "Interests", "Project details">>

\* the sections of a profile document, and the place of a section's label
\* in the fixed order (0: the section starts with no label)
SectionsOf(text) == IF text = "" THEN <<>> ELSE str_split(text, " | ")
LabelRank(section) ==
    IF \E r \in 1..Len(SectionLabels) : StartsWith(section, SectionLabels[r] \o ": ")
    THEN CHOOSE r \in 1..Len(SectionLabels) : StartsWith(section, SectionLabels[r] \o ": ")
    ELSE 0
HasSection(text, r) ==
    \E i \in 1..Len(SectionsOf(text)) : LabelRank(SectionsOf(text)[i]) = r

\* the sentences of a profile's READMEs that qualify: of the first five
\* repositories, the first two sentences, longer than 20 characters trimmed
QualifyingSentences(profile) ==
    {str_strip(str_split(profile.repositories[i].readme_content, ".")[k]) :
        <<i, k>> \in
            {<<j, m>> \in (1..Min(5, Len(profile.repositories))) \X (1..2) :
                /\ profile.repositories[j].readme_content # ""
                /\ m <= Len(str_split(profile.repositories[j].readme_content, "."))
                /\ Len(str_strip(str_split(profile.repositories[j].readme_content,
                                           ".")[m])) > 20}}

\* C19: generate_github_dna emits its sections in the order Technologies,
\* Projects, Interests, Project details, joined by " | ", and emits a section
\* only when it has content: every section is a label with a non-empty body,
\* a section is there exactly when the profile has a tech stack, a
\* description, a topic or a qualifying README sentence for it, and a
\* profile with none of these gives the empty string.
C19_SectionsInOrderNoneEmpty ==
    dna_out.generated =>
        LET text == dna_out.text
            profile == dna_in.profile
            sections == SectionsOf(text)
        IN  /\ \A i \in 1..Len(sections) :
                 /\ LabelRank(sections[i]) # 0
                 /\ Len(sections[i]) > Len(SectionLabels[LabelRank(sections[i])]) + 2
            /\ \A i, j \in 1..Len(sections) :
                 i < j => LabelRank(sections[i]) < LabelRank(sections[j])
            /\ HasSection(text, 1) <=> profile.tech_stack # <<>>
            /\ HasSection(text, 2) <=>
                 \E i \in 1..Len(profile.repositories) :
                     profile.repositories[i].description # ""
            /\ HasSection(text, 3) <=>
                 \E i \in 1..Len(profile.repositories) :
                     profile.repositories[i].topics # <<>>
            /\ HasSection(text, 4) <=> QualifyingSentences(profile) # {}
            /\ (/\ profile.tech_stack = <<>>
                /\ \A i \in 1..Len(profile.repositories) :
                     /\ profile.repositories[i].description = ""
                     /\ profile.repositories[i].topics = <<>>
                /\ QualifyingSentences(profile) = {}) => text = ""

\* a profile with a tech stack and a README of short sentences only, and no
\* description or topic: the document is the Technologies section alone
C19_Witness ==
    /\ dna_out.generated
    /\ dna_in.profile.tech_stack # <<>>
    /\ Len(dna_in.profile.repositories) = 1
    /\ dna_in.profile.repositories[1].readme_content # ""
    /\ QualifyingSentences(dna_in.profile) = {}
    /\ Len(SectionsOf(dna_out.text)) = 1
    /\ StartsWith(dna_out.text, "Technologies: ")

\* C20: the "Project details" section contains every qualifying sentence of
\* the READMEs of the first five repositories: none is left out.
C20_EveryQualifyingSentenceKept ==
    dna_out.generated =>
        \A sentence \in QualifyingSentences(dna_in.profile) :
            /\ HasSection(dna_out.text, 4)
            /\ \E i \in 1..Len(SectionsOf(dna_out.text)) :
                 /\ LabelRank(SectionsOf(dna_out.text)[i]) = 4
                 /\ Contains(SectionsOf(dna_out.text)[i], sentence)

\* C18: get_recommendations fails with the insufficient-data error (400),
\* the search service untouched, when the profile document is empty or
\* whitespace-only; otherwise it calls search once, with that document and
\* limit 20, and returns the list search returned, unchanged.
C18_RecommendationsDelegate ==
    [][(rec_call'.op = "get_recommendations" /\ rec_call'.profile.kind = "ok") =>
        IF str_strip(rec_call'.github_dna) = ""
        THEN /\ rec_ret' = RecRet("HTTPException", 400, <<>>)
             /\ rec_call'.searches = <<>>
             /\ UNCHANGED search_vars
        ELSE /\ rec_call'.searches = <<[query |-> rec_call'.github_dna, limit |-> 20]>>
             /\ search_call'.op = "search"
             /\ search_call'.limit = 20
             /\ search_ret'.kind = "ok" =>
                    rec_ret'.kind = "ok" /\ rec_ret'.results = search_ret'.results
    ]_vars

\* recommendations for a profile with a non-empty document: the twenty
\* results of the search came back
C18_Witness ==
    /\ rec_call.op = "get_recommendations"
    /\ rec_call.github_dna # ""
    /\ Len(rec_call.searches) = 1
    /\ rec_ret.kind = "ok"
    /\ Len(rec_ret.results) = 20
    /\ rec_ret.results = search_ret.results

\* C21: generate_github_dna is deterministic: a run on the profile of an
\* earlier run returns the document that run returned, the topics of the
\* Interests section being the same and in the same order.
C21_DnaDeterministic ==
    [][(dna_out.generated /\ dna_out'.generated /\ dna_in'.profile = dna_in.profile)
          => dna_out'.text = dna_out.text]_vars

\* a get_github_profile call was made in this step
ProfileStep == profile_call'.op = "get_github_profile" /\ github_now' = github_now
CalledKey == CacheKey(profile_call'.username)
Keys(c) == {c[i].key : i \in 1..Len(c)}

\* C22: the profile cache never holds more than 100 entries; an insertion
\* that brings it above 100 removes the 20 entries with the oldest
\* timestamps, the entry just inserted not being one of them, and any other
\* insertion removes nothing.
C22_CacheBounded ==
    [][(ProfileStep /\ profile_call'.fetched /\ profile_ret'.kind = "ok") =>
        /\ Len(profile_cache') <= CacheLimit
        /\ HasKey(profile_cache', CalledKey)
        /\ EntryOf(profile_cache', CalledKey).data = profile_ret'.profile[1]
        /\ IF ~HasKey(profile_cache, CalledKey) /\ Len(profile_cache) = CacheLimit
           THEN /\ Len(profile_cache') = CacheLimit + 1 - EvictCount
                /\ Keys(profile_cache') \subseteq Keys(profile_cache) \cup {CalledKey}
                /\ \A i \in 1..Len(profile_cache) :
                     ~HasKey(profile_cache', profile_cache[i].key) =>
                        \A j \in 1..Len(profile_cache') :
                            profile_cache[i].timestamp <= profile_cache'[j].timestamp
           ELSE Keys(profile_cache') = Keys(profile_cache) \cup {CalledKey}
    ]_vars

\* a full cache took one more profile: 81 entries are left, the new one
\* among them
C22_Witness ==
    /\ Len(profile_cache) = CacheLimit + 1 - EvictCount
    /\ profile_call.op = "get_github_profile"
    /\ profile_call.fetched
    /\ HasKey(profile_cache, CacheKey(profile_call.username))
    /\ ~HasKey(profile_cache, CacheKey(FillerUser(EvictCount)))

\* C23: get_github_profile(username) called less than 1 hour after the
\* fetch that cached the user's profile, the entry still being in the cache,
\* returns the cached profile and does not ask GitHub; from 1 hour on the
\* entry counts as a miss: the profile is fetched again and, the fetch
\* succeeding, cached again with the time of the call.
C23_ProfileCacheTtl ==
    [][(ProfileStep /\ HasKey(profile_cache, CalledKey)) =>
        LET entry == EntryOf(profile_cache, CalledKey)
        IN  IF Minutes(github_now) - Minutes(entry.timestamp) < 60
            THEN /\ ~profile_call'.fetched
                 /\ profile_ret' = ProfileRet("ok", 200, <<entry.data>>)
                 /\ profile_cache' = profile_cache
            ELSE /\ profile_call'.fetched
                 /\ profile_ret'.kind = "ok" =>
                        EntryOf(profile_cache', CalledKey)
                            = CacheEntry(CalledKey, profile_ret'.profile[1], github_now)
    ]_vars

\* the profile cached at the start was fetched again an hour or more later
\* and cached with the new time, at its old place
C23_Witness ==
    /\ profile_call.op = "get_github_profile"
    /\ profile_call.username = FillerUser(1)
    /\ profile_call.fetched
    /\ profile_ret.kind = "ok"
    /\ Len(profile_cache) >= CacheLimit - 1
    /\ profile_cache[1].key = CacheKey(FillerUser(1))
    /\ Minutes(profile_cache[1].timestamp) >= 60

\* C24: a failure of the store's query or get call inside search,
\* get_problem_by_id or get_collection_stats is raised as an error kind
\* that differs from the kind raised when initialization cannot reach the
\* store: of a call that failed in initialization and a following call that
\* failed on the store's query or get, the two error kinds are different.
C24_QueryErrorDistinctFromConnectivity ==
    [][(/\ search_call.op \in {"search", "get_problem_by_id", "get_collection_stats"}
        /\ search_ret.stage = "initialize"
        /\ search_call.env.model_ok /\ ~StoreReachable(search_call.env)
        /\ search_call'.op \in {"search", "get_problem_by_id", "get_collection_stats"}
        /\ search_ret'.stage \in {"query", "get", "stats"})
            => search_ret'.kind # search_ret.kind]_vars

AllCallersDone == \A i \in 1..MaxCallers : tasks[i].pc = "done"

\* C25 as stated: whatever callers are started together on a SearchService
\* that is not initialized, and in whatever order the event loop runs them,
\* the embedding model is loaded at most once and the store connection is
\* opened at most once.
C25_InitializedAtMostOnce ==
    /\ init_totals.model_loads <= 1
    /\ init_totals.connections <= 1

\* What does hold of the callers: the model is loaded and the connection
\* opened at most once more than initializations have failed, and once an
\* initialization has succeeded no caller loads or connects again.
InitializedOncePerFailure ==
    [][/\ init_totals'.model_loads <= 1 + init_totals'.failed
       /\ init_totals'.connections <= 1 + init_totals'.failed
       /\ search_initialized =>
            /\ init_totals'.model_loads = init_totals.model_loads
            /\ init_totals'.connections = init_totals.connections]_vars

\* every caller has run, the first of them initialized the service and the
\* others found it initialized
InitializedOnce ==
    /\ AllCallersDone
    /\ search_initialized
    /\ init_totals = [model_loads |-> 1, connections |-> 1, failed |-> 0]

ReadingOps == {"get_category_breakdown", "get_technology_trends", "health_check"}
CacheWritten == cache' # cache \/ cache_timestamp' # cache_timestamp

\* C26: the cached snapshot and its timestamp change only in a
\* get_dashboard_stats call that recomputes, in a clear_cache call, or in
\* the get_dashboard_stats call that get_category_breakdown,
\* get_technology_trends or health_check makes: these three leave both
\* unchanged whenever the cache is valid, and when they change them it is to
\* the snapshot a recomputation built from the catalog it fetched, stamped
\* with the time of the call.
C26_ReadsWriteOnlyThroughGetStats ==
    [][/\ CacheWritten =>
            /\ now' = now
            /\ dash_call'.op \in ReadingOps \cup {"get_dashboard_stats", "clear_cache"}
       /\ (now' = now /\ dash_call'.op \in ReadingOps) =>
            /\ is_cache_valid(cache_timestamp, now) => ~CacheWritten
            /\ CacheWritten =>
                  /\ dash_call'.fetched
                  /\ ~dash_call'.answer.raises
                  /\ cache' = <<generate_dashboard_stats(dash_call'.answer.hits, next_object)>>
                  /\ cache_timestamp' = now
       /\ (now' = now /\ dash_call'.op = "get_dashboard_stats" /\ CacheWritten) =>
            /\ dash_call'.fetched
            /\ dash_ret'.stage = "computed"
    ]_vars

\* a reading operation, called after the snapshot was stored and before it
\* expired, was served from the cache
C26_Witness ==
    /\ dash_call.op \in ReadingOps
    /\ ~dash_call.fetched
    /\ dash_ret.kind \in {"ok", "healthy"}
    /\ cache # <<>>
    /\ is_cache_valid(cache_timestamp, now)
    /\ cache_timestamp < now

\* the recomputation of a get_dashboard_stats call failed: the catalog
\* could not be fetched or the statistics could not be computed from it
RecomputationFailed(call) ==
    /\ call.op = "get_dashboard_stats"
    /\ call.fetched
    /\ \/ call.answer.raises
       \/ call.answer.hits # <<>> /\ StatsRaise(call.answer.hits)

\* C27: a get_dashboard_stats call, forced or not, whose catalog fetch or
\* statistics computation fails raises DashboardServiceError and leaves the
\* cached snapshot and its timestamp exactly as they were.
C27_FailedRecomputeKeepsCache ==
    [][(now' = now /\ RecomputationFailed(dash_call')) =>
        /\ dash_ret'.kind = "DashboardServiceError"
        /\ dash_ret'.stage \in {"fetch", "generate"}
        /\ dash_ret'.stats = NoSnapshot
        /\ cache' = cache
        /\ cache_timestamp' = cache_timestamp]_vars

\* a forced refresh failed on the statistics while a snapshot was cached:
\* the snapshot is still there
C27_Witness ==
    /\ RecomputationFailed(dash_call)
    /\ dash_call.force_refresh
    /\ dash_ret.stage = "generate"
    /\ cache # <<>>
    /\ is_cache_valid(cache_timestamp, now)

\* C28: in every state reached by get_dashboard_stats (forced or not,
\* succeeding or failing), clear_cache, get_category_breakdown,
\* get_technology_trends and health_check calls, the cache timestamp is set
\* only if a snapshot is stored.
C28_TimestampImpliesSnapshot ==
    cache_timestamp # NoTime => cache # <<>>

\* a snapshot was stored, then cleared, after calls of every kind
C28_Witness ==
    /\ dash_call.op = "clear_cache"
    /\ dash_hist.discarded # 0
    /\ cache = <<>>
    /\ cache_timestamp = NoTime
    /\ now > 0

\* the number of pages of a catalog of n records
Pages(n) == (n + 999) \div 1000

\* C29: for a catalog of N records that does not change during the scan,
\* _fetch_all_problem_data reads pages at offsets 0, 1000, 2000, ..., each
\* with limit min(1000, N - offset), stops when the offsets are exhausted and
\* returns every record exactly once, N items in all; N = 0 gives no page
\* read and an empty list.
C29_PagedScanReturnsAll ==
    scan.pc = "returned" =>
        /\ Len(scan.reads) = Pages(scan.n)
        /\ \A k \in 1..Len(scan.reads) :
              /\ scan.reads[k].offset = 1000 * (k - 1)
              /\ scan.reads[k].limit = Min(1000, scan.n - 1000 * (k - 1))
        /\ Len(scan.all_data) = scan.n
        /\ \A i \in 1..scan.n : scan.all_data[i] = i
        /\ scan.n = 0 => (scan.reads = <<>> /\ scan.all_data = <<>>)

\* a catalog of more than 2000 records was read in three pages, the last
\* one short
C29_Witness ==
    /\ scan.pc = "returned"
    /\ scan.n > 2000
    /\ Len(scan.reads) = 3
    /\ scan.reads[3].limit < 1000
    /\ Len(scan.all_data) = scan.n

\* an attempt after which _proxy_request may try again
Retryable(outcome) ==
    \/ outcome.kind = "request_error"
    \/ outcome.kind = "response" /\ outcome.status \in {502, 503, 504, 429}

ProxyOver == proxy.pc \in {"returned", "raised"}
LastOutcome == proxy.outcomes[Len(proxy.outcomes)]

\* C30: a _proxy_request call makes at most 3 upstream attempts and is over
\* after the third; it goes on to another attempt only after a 502, 503, 504
\* or 429 response or a transport error, never after another error status;
\* and a call whose last attempt failed raises an HTTPException with the
\* upstream status, 503 for a transport error, instead of returning.
C30_ProxyRetriesBounded ==
    /\ Len(proxy.outcomes) <= 3
    /\ Len(proxy.outcomes) = 3 => ProxyOver
    /\ \A k \in 1..Len(proxy.outcomes) :
          (k < Len(proxy.outcomes) \/ proxy.pc = "sleeping") => Retryable(proxy.outcomes[k])
    /\ (ProxyOver /\ LastOutcome.status # 200) =>
          /\ proxy.end.kind = "HTTPException"
          /\ proxy.end.status = IF LastOutcome.kind = "request_error" THEN 503
                                ELSE LastOutcome.status
    /\ (proxy.pc \in {"requesting", "sleeping"} /\ proxy.outcomes # <<>>) =>
          LastOutcome.status # 200

\* three attempts were made, each failing in a way that allows a retry, and
\* the call raised with the status of the last
C30_Witness ==
    /\ proxy.pc = "raised"
    /\ Len(proxy.outcomes) = 3
    /\ proxy.outcomes[1].kind = "request_error"
    /\ proxy.outcomes[3].status = 429
    /\ proxy.end = ProxyEnd("HTTPException", 429)
    /\ proxy.slept = <<5, 10>>

====
